---------------------------- MODULE Spec2Model ----------------------------
(***************************************************************************)
(* A model of the runtime core of engine262: the property descriptor       *)
(* kernel (ValidateAndApplyPropertyDescriptor), the ordinary and exotic    *)
(* internal methods built on it, and the execution-context stack.          *)
(*                                                                         *)
(* Conventions.  A field that is JavaScript-undefined ("absent" in the     *)
(* specification's words) is the string "absent"; the language values      *)
(* undefined, true, false and null are the strings "undefined", "true",    *)
(* "false" and "null".  A Number that has to be compared with 2^32 - 1 is  *)
(* a pair <<hi, lo>> of base-2^27 digits, because the model checker's      *)
(* integers are 32 bits wide.                                              *)
(***************************************************************************)
EXTENDS Integers, Sequences, FiniteSets, TLC

VARIABLES
    heap,       \* object id -> [kind, properties, Prototype, Extensible]
    last,       \* the last internal-method call: its arguments and result
    modules,    \* module record id -> [Environment, Exports]
    defined,    \* the keys ever successfully defined on the array
    executionContextStack,  \* surroundingAgent.executionContextStack
    hostDefinedOptions,     \* surroundingAgent.hostDefinedOptions
    evaluation, \* the position of the running ScriptEvaluation
    jobQueue,   \* surroundingAgent.jobQueue
    ran,        \* the jobs run so far, in the order they were run
    loading     \* the calls of HostLoadImportedModule and their callbacks

agentVars == <<executionContextStack, hostDefinedOptions, evaluation>>
jobVars == <<jobQueue, ran, loading>>
objectVars == <<heap, last, modules, defined>>
vars == <<heap, last, modules, defined, executionContextStack,
          hostDefinedOptions, evaluation, jobQueue, ran, loading>>

---------------------------------------------------------------------------
(* Language values *)

absent == "absent"
Vundefined == "undefined"
Vnull == "null"
Vtrue == "true"
Vfalse == "false"

\* const x = ...: x is evaluated once and Body continues with its value.
With(x, Body(_)) == CHOOSE r \in {Body(v) : v \in {x}} : TRUE

\* Language values that appear as [[Value]] of a data property.
Values == {Vundefined, "v1", "v2"}
\* Function objects that appear as [[Get]] / [[Set]].
Functions == {"f"}

\* SameValue on the values of the model: every value is a distinct token
\* (one undefined, distinct objects, distinct numbers), so SameValue is
\* identity.
SameValue(x, y) == IF x = y THEN Vtrue ELSE Vfalse

---------------------------------------------------------------------------
(* Numbers wider than 31 bits: <<hi, lo>> stands for hi * 2^27 + lo. *)

Base == 2^27
Num(hi, lo) == <<hi, lo>>
NumLt(a, b) == a[1] < b[1] \/ (a[1] = b[1] /\ a[2] < b[2])
NumGe(a, b) == ~NumLt(a, b)
NumInc(a) == IF a[2] = Base - 1 THEN <<a[1] + 1, 0>> ELSE <<a[1], a[2] + 1>>
Zero == Num(0, 0)
\* 2^32 - 1 = 31 * 2^27 + (2^27 - 1)
Two32Minus1 == Num(31, Base - 1)
\* 2^53 - 1 = (2^26 - 1) * 2^27 + (2^27 - 1), Number.MAX_SAFE_INTEGER
MaxSafeInteger == Num(2^26 - 1, Base - 1)

---------------------------------------------------------------------------
(* Property keys.  A String key whose text is the canonical decimal form   *)
(* of a non-negative integer carries that integer in n; every other key    *)
(* has n = NotNumeric.                                                     *)

NotNumeric == <<-1, -1>>
StrKey(s) == [type |-> "String", name |-> s, n |-> NotNumeric]
IdxKey(n) == [type |-> "String", name |-> "", n |-> n]
SymKey(s) == [type |-> "Symbol", name |-> s, n |-> NotNumeric]

\* CanonicalNumericIndexString(V) of a String key: the number whose
\* canonical text the key is, or undefined.
CanonicalNumericIndexString(V) == IF V.n = NotNumeric THEN Vundefined ELSE V.n

isIntegerIndex(V) ==
    IF V.type # "String" THEN FALSE
    ELSE IF V.n = NotNumeric THEN FALSE
    ELSE IF V.n = Zero THEN TRUE
    ELSE NumLt(Zero, V.n) /\ ~NumLt(MaxSafeInteger, V.n)

isArrayIndex(V) ==
    IF V.type # "String" THEN FALSE
    ELSE IF V.n = NotNumeric THEN FALSE
    ELSE IF V.n = Zero THEN TRUE
    ELSE NumLt(Zero, V.n) /\ NumLt(V.n, Two32Minus1)

---------------------------------------------------------------------------
(* Number values.  The Numbers that occur as the [[Value]] of a property   *)
(* are tokens; numberValue gives the number of a token and F the token of  *)
(* a number.                                                               *)

NaN == <<-1, -1>>
NumberTable ==
    [n0 |-> Num(0, 0), n1 |-> Num(0, 1), n2 |-> Num(0, 2), n3 |-> Num(0, 3),
     n4294967294 |-> Num(31, Base - 2), n4294967295 |-> Num(31, Base - 1), n4294967296 |-> Num(32, 0)]
Numbers == DOMAIN NumberTable
numberValue(v) == NumberTable[v]
F(n) == CHOOSE v \in Numbers : NumberTable[v] = n

\* ToNumber(argument): a Number is returned as it is, undefined gives NaN.
ToNumber(argument) == IF argument \in Numbers THEN numberValue(argument) ELSE NaN

\* ToUint32(argument): the number modulo 2^32; NaN gives +0.
ToUint32(argument) ==
    IF argument \in Numbers
    THEN Num(numberValue(argument)[1] % 32, numberValue(argument)[2])
    ELSE Zero

---------------------------------------------------------------------------
(* Property descriptors *)

Descriptor(v, w, g, s, e, c) ==
    [Value |-> v, Writable |-> w, Get |-> g, Set |-> s,
     Enumerable |-> e, Configurable |-> c]

\* The result of GetOwnProperty when the property does not exist.
UndefinedValue == Descriptor("none", "none", "none", "none", "none", "none")

everyFieldIsAbsent(Desc) ==
    /\ Desc.Value = absent
    /\ Desc.Get = absent
    /\ Desc.Set = absent
    /\ Desc.Writable = absent
    /\ Desc.Enumerable = absent
    /\ Desc.Configurable = absent

IsAccessorDescriptor(Desc) ==
    IF Desc = UndefinedValue THEN FALSE
    ELSE ~(Desc.Get = absent /\ Desc.Set = absent)

IsDataDescriptor(Desc) ==
    IF Desc = UndefinedValue THEN FALSE
    ELSE ~(Desc.Value = absent /\ Desc.Writable = absent)

IsGenericDescriptor(Desc) ==
    IF Desc = UndefinedValue THEN FALSE
    ELSE ~IsAccessorDescriptor(Desc) /\ ~IsDataDescriptor(Desc)

---------------------------------------------------------------------------
(* The property map: an insertion-ordered map, as a sequence of            *)
(* [key, desc] pairs without duplicate keys.                               *)

PropsHas(props, P) == \E i \in DOMAIN props : props[i].key = P
PropsIndex(props, P) == CHOOSE i \in DOMAIN props : props[i].key = P
PropsGet(props, P) == props[PropsIndex(props, P)].desc
\* Map.prototype.set: an existing key keeps its position.
PropsSet(props, P, d) ==
    IF PropsHas(props, P)
    THEN [props EXCEPT ![PropsIndex(props, P)].desc = d]
    ELSE Append(props, [key |-> P, desc |-> d])
PropsDelete(props, P) == SelectSeq(props, LAMBDA e : e.key # P)
PropsKeys(props) == [i \in DOMAIN props |-> props[i].key]

\* O = undefined, as IsCompatiblePropertyDescriptor passes it.
NoObject ==
    [id |-> Vundefined, kind |-> "undefined", properties |-> <<>>,
     Prototype |-> Vnull, Extensible |-> Vfalse]

---------------------------------------------------------------------------
(* Completions.  An internal method that returns a descriptor, a boolean   *)
(* or a value may instead return a throw completion.                       *)

ThrowDescriptor(e) == Descriptor(e, "throw", "throw", "throw", "throw", "throw")
IsThrowDescriptor(d) == d.Writable = "throw"
ThrowValue(e) == <<"throw", e>>

---------------------------------------------------------------------------
(* The internal methods of an object, O.GetOwnProperty(P) and the like,   *)
(* are the ones installed on it at creation; they are defined after the   *)
(* ordinary and exotic implementations, which call them.                  *)

RECURSIVE GetOwnProperty(_, _), IsExtensible(_), GetPrototypeOf(_)
RECURSIVE Get(_, _), HasProperty(_, _)

---------------------------------------------------------------------------
(* Ordinary internal methods (abstract-ops/arraybuffer-objects.mts) *)

Default(field, dflt) == IF field = absent THEN dflt ELSE field

\* NewDataEntry with [[Writable]] defaulting to true.
NewDataEntry_WritableByDefault(Desc) ==
    Descriptor(Default(Desc.Value, Vundefined),
               Default(Desc.Writable, Vtrue),
               absent, absent,
               Default(Desc.Enumerable, Vfalse),
               Default(Desc.Configurable, Vfalse))

\* The entry written for a new property from a generic or data Desc.
NewDataEntry(Desc) ==
    Descriptor(Default(Desc.Value, Vundefined),
               Default(Desc.Writable, Vfalse),
               absent, absent,
               Default(Desc.Enumerable, Vfalse),
               Default(Desc.Configurable, Vfalse))

\* The entry written for a new property from an accessor Desc.
NewAccessorEntry(Desc) ==
    Descriptor(absent, absent,
               Default(Desc.Get, Vundefined),
               Default(Desc.Set, Vundefined),
               Default(Desc.Enumerable, Vfalse),
               Default(Desc.Configurable, Vfalse))

\* RejectsOnNonConfigurable without the [[Enumerable]] comparison.
RejectsOnNonConfigurable_NoEnumerableCheck(Desc, current) ==
    /\ current.Configurable = Vfalse
    /\ (Desc.Configurable # absent /\ Desc.Configurable = Vtrue)

\* The checks made first when current.[[Configurable]] is false.
RejectsOnNonConfigurable(Desc, current) ==
    /\ current.Configurable = Vfalse
    /\ \/ (Desc.Configurable # absent /\ Desc.Configurable = Vtrue)
       \/ (Desc.Enumerable # absent /\ Desc.Enumerable # current.Enumerable)

\* ConvertToAccessor that leaves [[Value]] and [[Writable]] in the entry.
ConvertToAccessor_KeepsValue(entry) ==
    [entry EXCEPT !.Get = Vundefined, !.Set = Vundefined]

\* The in-place conversion of a stored data entry to an accessor entry.
ConvertToAccessor(entry) ==
    [entry EXCEPT !.Value = absent, !.Writable = absent,
                  !.Get = Vundefined, !.Set = Vundefined]

\* The in-place conversion of a stored accessor entry to a data entry.
ConvertToData(entry) ==
    [entry EXCEPT !.Get = absent, !.Set = absent,
                  !.Value = Vundefined, !.Writable = Vfalse]

\* The final step: every field present in Desc overwrites the stored one.
MergeFields(target, Desc) ==
    [f \in DOMAIN target |-> IF Desc[f] # absent THEN Desc[f] ELSE target[f]]

\* The validation of a data Desc against a non-configurable, non-writable
\* data property: TRUE when the change is rejected.
RejectsOnNonWritable(Desc, current) ==
    \/ (Desc.Writable # absent /\ Desc.Writable = Vtrue)
    \/ (Desc.Value # absent /\ SameValue(Desc.Value, current.Value) = Vfalse)

\* RejectsOnNonConfigurableAccessor without the [[Get]] comparison.
RejectsOnNonConfigurableAccessor_NoGetCheck(Desc, current) ==
    (Desc.Set # absent /\ SameValue(Desc.Set, current.Set) = Vfalse)

\* The validation of an accessor Desc against a non-configurable accessor
\* property: TRUE when the change is rejected.
RejectsOnNonConfigurableAccessor(Desc, current) ==
    \/ (Desc.Set # absent /\ SameValue(Desc.Set, current.Set) = Vfalse)
    \/ (Desc.Get # absent /\ SameValue(Desc.Get, current.Get) = Vfalse)

\* ValidateAndApplyPropertyDescriptor(O, P, extensible, Desc, current):
\* the returned record holds the boolean result in ret ("assert" when one
\* of the function's assertions fails) and the object after the call in O.
ValidateAndApplyPropertyDescriptor(O, P, extensible, Desc, current) ==
    LET Reject == [ret |-> Vfalse, O |-> O]
        Accept(obj) == [ret |-> Vtrue, O |-> obj]
        Failed == [ret |-> "assert", O |-> O]
        Store(d) ==
            IF O.kind = "undefined" THEN O
            ELSE [O EXCEPT !.properties = PropsSet(O.properties, P, d)]
        Stored == PropsGet(O.properties, P)
        Merge(obj) ==
            IF obj.kind = "undefined" THEN obj
            ELSE [obj EXCEPT !.properties =
                     PropsSet(obj.properties, P,
                              MergeFields(PropsGet(obj.properties, P), Desc))]
    IN
    IF current = UndefinedValue THEN
        IF extensible = Vfalse THEN Reject
        ELSE IF extensible # Vtrue THEN Failed
        ELSE IF IsGenericDescriptor(Desc) \/ IsDataDescriptor(Desc)
             THEN Accept(Store(NewDataEntry(Desc)))
        ELSE IF ~IsAccessorDescriptor(Desc) THEN Failed
        ELSE Accept(Store(NewAccessorEntry(Desc)))
    ELSE IF everyFieldIsAbsent(Desc) THEN Accept(O)
    ELSE IF RejectsOnNonConfigurable(Desc, current) THEN Reject
    ELSE IF IsGenericDescriptor(Desc) THEN Accept(Merge(O))
    ELSE IF IsDataDescriptor(current) # IsDataDescriptor(Desc) THEN
        IF current.Configurable = Vfalse THEN Reject
        ELSE IF IsDataDescriptor(current)
             THEN Accept(Merge(Store(ConvertToAccessor(Stored))))
             ELSE Accept(Merge(Store(ConvertToData(Stored))))
    ELSE IF IsDataDescriptor(current) /\ IsDataDescriptor(Desc) THEN
        IF current.Configurable = Vfalse /\ current.Writable = Vfalse
        THEN IF RejectsOnNonWritable(Desc, current) THEN Reject ELSE Accept(O)
        ELSE Accept(Merge(O))
    ELSE IF ~(IsAccessorDescriptor(current) /\ IsAccessorDescriptor(Desc))
         THEN Failed
    ELSE IF current.Configurable = Vfalse
         THEN IF RejectsOnNonConfigurableAccessor(Desc, current)
              THEN Reject ELSE Accept(O)
    ELSE Accept(Merge(O))

\* OrdinaryGetOwnProperty: a fresh descriptor copied from the stored entry.
OrdinaryGetOwnProperty(O, P) ==
    IF ~PropsHas(O.properties, P) THEN UndefinedValue
    ELSE LET x == PropsGet(O.properties, P)
             D == Descriptor(absent, absent, absent, absent, absent, absent)
             D1 == IF IsDataDescriptor(x)
                   THEN [D EXCEPT !.Value = x.Value, !.Writable = x.Writable]
                   ELSE IF IsAccessorDescriptor(x)
                   THEN [D EXCEPT !.Get = x.Get, !.Set = x.Set]
                   ELSE D
         IN [D1 EXCEPT !.Enumerable = x.Enumerable,
                       !.Configurable = x.Configurable]

\* An OrdinaryIsExtensible that does not read the slot.
OrdinaryIsExtensible_Always(O) == Vtrue

OrdinaryIsExtensible(O) == O.Extensible

OrdinaryPreventExtensions(O) == [ret |-> Vtrue, O |-> [O EXCEPT !.Extensible = Vfalse]]

OrdinaryGetPrototypeOf(O) == O.Prototype

\* An OrdinaryDefineOwnProperty that stores as if O were extensible.
OrdinaryDefineOwnProperty_StoresFirst(O, P, Desc) ==
    With(GetOwnProperty(O, P), LAMBDA current :
        IF IsThrowDescriptor(current) THEN [ret |-> "throw", O |-> O]
        ELSE [ret |-> ValidateAndApplyPropertyDescriptor(
                          O, P, IsExtensible(O), Desc, current).ret,
              O |-> ValidateAndApplyPropertyDescriptor(
                        O, P, Vtrue, Desc, current).O])

OrdinaryDefineOwnProperty(O, P, Desc) ==
    With(GetOwnProperty(O, P), LAMBDA current :
        IF IsThrowDescriptor(current) THEN [ret |-> "throw", O |-> O]
        ELSE ValidateAndApplyPropertyDescriptor(O, P, IsExtensible(O), Desc,
                                                current))

OrdinaryDelete(O, P) ==
    With(GetOwnProperty(O, P), LAMBDA desc :
        IF IsThrowDescriptor(desc) THEN [ret |-> "throw", O |-> O]
        ELSE IF desc = UndefinedValue THEN [ret |-> Vtrue, O |-> O]
        ELSE IF desc.Configurable = Vtrue
        THEN [ret |-> Vtrue,
              O |-> [O EXCEPT !.properties = PropsDelete(O.properties, P)]]
        ELSE [ret |-> Vfalse, O |-> O])


\* OrdinaryHasProperty without the walk up the prototype chain.
OrdinaryHasProperty_OwnOnly(O, P) ==
    With(GetOwnProperty(O, P), LAMBDA hasOwn :
        IF IsThrowDescriptor(hasOwn) THEN "throw"
        ELSE IF hasOwn # UndefinedValue THEN Vtrue
        ELSE Vfalse)

OrdinaryHasProperty(O, P) ==
    With(GetOwnProperty(O, P), LAMBDA hasOwn :
        IF IsThrowDescriptor(hasOwn) THEN "throw"
        ELSE IF hasOwn # UndefinedValue THEN Vtrue
        ELSE With(GetPrototypeOf(O), LAMBDA parent :
                 IF parent # Vnull THEN HasProperty(heap[parent], P)
                 ELSE Vfalse))

\* Call(getter, Receiver): the value a getter function returns.
CallGetter(getter) == <<"normal", "got">>

OrdinaryGet(O, P) ==
    With(GetOwnProperty(O, P), LAMBDA desc :
        IF IsThrowDescriptor(desc) THEN ThrowValue(desc.Value)
        ELSE IF desc = UndefinedValue
        THEN With(GetPrototypeOf(O), LAMBDA parent :
                 IF parent = Vnull THEN <<"normal", Vundefined>>
                 ELSE Get(heap[parent], P))
        ELSE IF IsDataDescriptor(desc) THEN <<"normal", desc.Value>>
        ELSE IF desc.Get = Vundefined THEN <<"normal", Vundefined>>
        ELSE CallGetter(desc.Get))

\* OrdinarySetPrototypeOf(O, V): V is an object id or null.  The loop walks
\* the chain from V and ends at null, at O or at an object that has not the
\* ordinary [[GetPrototypeOf]] (a proxy).
RECURSIVE ChainReaches(_, _)
ChainReaches(p, O) ==
    IF p = Vnull THEN FALSE
    ELSE IF SameValue(p, O.id) = Vtrue THEN TRUE
    ELSE IF heap[p].kind = "proxy" THEN FALSE
    ELSE ChainReaches(heap[p].Prototype, O)

\* An OrdinarySetPrototypeOf that does not walk the chain from V.
OrdinarySetPrototypeOf_NoWalk(O, V) ==
    LET current == O.Prototype
    IN IF SameValue(V, current) = Vtrue THEN [ret |-> Vtrue, O |-> O]
       ELSE IF O.Extensible = Vfalse THEN [ret |-> Vfalse, O |-> O]
       ELSE [ret |-> Vtrue, O |-> [O EXCEPT !.Prototype = V]]

OrdinarySetPrototypeOf(O, V) ==
    LET current == O.Prototype
    IN IF SameValue(V, current) = Vtrue THEN [ret |-> Vtrue, O |-> O]
       ELSE IF O.Extensible = Vfalse THEN [ret |-> Vfalse, O |-> O]
       ELSE IF ChainReaches(V, O) THEN [ret |-> Vfalse, O |-> O]
       ELSE [ret |-> Vtrue, O |-> [O EXCEPT !.Prototype = V]]

---------------------------------------------------------------------------
(* Module records and module namespace exotic objects                      *)
(* (abstract-ops/module-namespace-exotic-objects.mts)                      *)

NoModules == <<>>

\* A module record: its [[Environment]] (undefined until the module is
\* linked) and the state of the bindings of its environment.
ModuleRecord(names) ==
    [Environment |-> Vundefined, bindings |-> [n \in names |-> "uninitialized"]]

ResolvedBindingRecord(Module, BindingName) ==
    [Module |-> Module, BindingName |-> BindingName]

\* m.ResolveExport(name): a local export resolves to the binding of that
\* name in m itself; an indirect export (export {y as ab} from "other",
\* export * as ns from "other") resolves to the record of m's table.
ResolveExport(m, name) ==
    IF "IndirectExports" \in DOMAIN modules[m]
         /\ name \in DOMAIN modules[m].IndirectExports
    THEN modules[m].IndirectExports[name]
    ELSE ResolvedBindingRecord(m, name)

\* GetModuleNamespace(module) for a module whose namespace object exists.
GetModuleNamespace(module) == <<"normal", modules[module].Namespace>>

\* targetEnv.GetBindingValue(N, true): a ReferenceError while the binding
\* is uninitialized.
GetBindingValue(bindings, N) ==
    IF bindings[N] = "uninitialized" THEN ThrowValue("ReferenceError")
    ELSE <<"normal", bindings[N]>>

SeqHas(seq, x) == \E i \in DOMAIN seq : seq[i] = x

ModuleNamespaceIsExtensible(O) == Vfalse

ModuleNamespacePreventExtensions(O) == [ret |-> Vtrue, O |-> O]

\* A [[Get]] that tests the target environment before the binding name.
ModuleNamespaceGet_EnvironmentFirst(O, P) ==
    IF P.type = "Symbol" THEN OrdinaryGet(O, P)
    ELSE IF ~SeqHas(O.Exports, P.name) THEN <<"normal", Vundefined>>
    ELSE LET binding == ResolveExport(O.Module, P.name)
             targetModule == modules[binding.Module]
         IN IF targetModule.Environment = Vundefined
            THEN ThrowValue("ReferenceError")
            ELSE IF binding.BindingName = "namespace"
            THEN GetModuleNamespace(binding.Module)
            ELSE GetBindingValue(targetModule.bindings, binding.BindingName)

\* [[Get]] of a String key of a namespace object; Symbol keys take the
\* ordinary path through the property map.
ModuleNamespaceGet(O, P) ==
    IF P.type = "Symbol" THEN OrdinaryGet(O, P)
    ELSE IF ~SeqHas(O.Exports, P.name) THEN <<"normal", Vundefined>>
    ELSE LET binding == ResolveExport(O.Module, P.name)
             targetModule == modules[binding.Module]
         IN IF binding.BindingName = "namespace"
            THEN GetModuleNamespace(binding.Module)
            ELSE IF targetModule.Environment = Vundefined
            THEN ThrowValue("ReferenceError")
            ELSE GetBindingValue(targetModule.bindings, binding.BindingName)

ModuleNamespaceGetOwnProperty(O, P) ==
    IF P.type = "Symbol" THEN OrdinaryGetOwnProperty(O, P)
    ELSE IF ~SeqHas(O.Exports, P.name) THEN UndefinedValue
    ELSE With(ModuleNamespaceGet(O, P), LAMBDA value :
            IF value[1] = "throw" THEN ThrowDescriptor(value[2])
            ELSE Descriptor(value[2], Vtrue, absent, absent, Vtrue, Vfalse))

ModuleNamespaceDefineOwnProperty(O, P, Desc) ==
    IF P.type = "Symbol" THEN OrdinaryDefineOwnProperty(O, P, Desc)
    ELSE With(ModuleNamespaceGetOwnProperty(O, P), LAMBDA current :
            LET R(b) == [ret |-> b, O |-> O]
            IN IF IsThrowDescriptor(current) THEN R("throw")
               ELSE IF current = UndefinedValue THEN R(Vfalse)
               ELSE IF IsAccessorDescriptor(Desc) THEN R(Vfalse)
               ELSE IF Desc.Writable # absent /\ Desc.Writable = Vfalse THEN R(Vfalse)
               ELSE IF Desc.Enumerable # absent /\ Desc.Enumerable = Vfalse THEN R(Vfalse)
               ELSE IF Desc.Configurable # absent /\ Desc.Configurable = Vtrue THEN R(Vfalse)
               ELSE IF Desc.Value # absent THEN R(SameValue(Desc.Value, current.Value))
               ELSE R(Vtrue))

ModuleNamespaceSet(O, P, V, Receiver) == [ret |-> Vfalse, O |-> O]

\* A [[Delete]] that removes the export it is asked to delete.
ModuleNamespaceDelete_Removes(O, P) ==
    IF P.type = "Symbol" THEN OrdinaryDelete(O, P)
    ELSE [ret |-> Vtrue,
          O |-> [O EXCEPT !.Exports = SelectSeq(O.Exports, LAMBDA e : e # P.name)]]

ModuleNamespaceDelete(O, P) ==
    IF P.type = "Symbol" THEN OrdinaryDelete(O, P)
    ELSE IF SeqHas(O.Exports, P.name) THEN [ret |-> Vfalse, O |-> O]
    ELSE [ret |-> Vtrue, O |-> O]

ModuleNamespaceHasProperty(O, P) ==
    IF P.type = "Symbol" THEN OrdinaryHasProperty(O, P)
    ELSE IF SeqHas(O.Exports, P.name) THEN Vtrue
    ELSE Vfalse

\* SetImmutablePrototype(O, V): true only when V is already the prototype.
SetImmutablePrototype(O, V) ==
    LET current == GetPrototypeOf(O)
    IN IF SameValue(V, current) = Vtrue THEN [ret |-> Vtrue, O |-> O]
       ELSE [ret |-> Vfalse, O |-> O]

ModuleNamespaceSetPrototypeOf(O, V) == SetImmutablePrototype(O, V)

\* The UTF-16 code units of the export names.
CodeUnits ==
    [B |-> <<66>>, a |-> <<97>>, ab |-> <<97, 98>>, ns |-> <<110, 115>>,
     x |-> <<120>>]

\* px < py for two strings: the first differing code unit decides, and a
\* proper prefix is smaller.
RECURSIVE IsStringLessThan(_, _)
IsStringLessThan(px, py) ==
    IF py = <<>> THEN FALSE
    ELSE IF px = <<>> THEN TRUE
    ELSE IF Head(px) # Head(py) THEN Head(px) < Head(py)
    ELSE IsStringLessThan(Tail(px), Tail(py))

AbstractRelationalComparison(x, y) ==
    IF IsStringLessThan(CodeUnits[x], CodeUnits[y]) THEN Vtrue ELSE Vfalse

\* SortCompare(x, y, comparefn) of two Strings with comparefn undefined,
\* as ModuleNamespaceCreate calls it; the result is the numberValue() of
\* the Number returned.
SortCompare(x, y, comparefn) ==
    IF x = Vundefined /\ y = Vundefined THEN 0
    ELSE IF x = Vundefined THEN 1
    ELSE IF y = Vundefined THEN -1
    ELSE IF AbstractRelationalComparison(x, y) = Vtrue THEN -1
    ELSE IF AbstractRelationalComparison(y, x) = Vtrue THEN 1
    ELSE 0

\* [...exports].sort(comparator): a stable sort, here by insertion.
RECURSIVE InsertSorted(_, _)
InsertSorted(sorted, x) ==
    IF sorted = <<>> THEN <<x>>
    ELSE IF SortCompare(x, Head(sorted), Vundefined) < 0 THEN <<x>> \o sorted
    ELSE <<Head(sorted)>> \o InsertSorted(Tail(sorted), x)
RECURSIVE sortedExports(_)
sortedExports(exports) ==
    IF exports = <<>> THEN <<>>
    ELSE InsertSorted(sortedExports(SubSeq(exports, 1, Len(exports) - 1)),
                      exports[Len(exports)])

\* new ValueSet(list): the values of the list in the order of their first
\* occurrence, each once.
ValueSet(list) ==
    LET keep == {i \in DOMAIN list : \A j \in 1..(i - 1) : list[j] # list[i]}
    IN [k \in 1..Cardinality(keep) |->
           list[CHOOSE i \in keep : Cardinality({j \in keep : j < i}) = k - 1]]

\* A ModuleNamespaceCreate that keeps the exports in the order given.
ModuleNamespaceCreate_Unsorted(id, module, exports) ==
    [id |-> id, kind |-> "namespace",
     properties |-> <<[key |-> SymKey("toStringTag"),
                       desc |-> Descriptor("Module", Vfalse, absent, absent,
                                           Vfalse, Vfalse)]>>,
     Prototype |-> Vnull, Extensible |-> Vfalse,
     Exports |-> ValueSet(exports), Module |-> module]

ModuleNamespaceCreate(id, module, exports) ==
    [id |-> id, kind |-> "namespace",
     properties |-> <<[key |-> SymKey("toStringTag"),
                       desc |-> Descriptor("Module", Vfalse, absent, absent,
                                           Vfalse, Vfalse)]>>,
     Prototype |-> Vnull, Extensible |-> Vfalse,
     Exports |-> ValueSet(sortedExports(exports)), Module |-> module]

---------------------------------------------------------------------------
(* Property key order and array exotic objects                             *)
(* (abstract-ops/arraybuffer-objects.mts, abstract-ops/private-names.mts)  *)

Range(seq) == {seq[i] : i \in DOMAIN seq}

\* Array.prototype.sort of a list of keys with distinct numeric values, by
\* ascending and by descending numeric value.
SortAscending(keys) ==
    [i \in 1..Len(keys) |->
        CHOOSE k \in Range(keys) :
            Cardinality({j \in Range(keys) : NumLt(j.n, k.n)}) = i - 1]
SortDescending(keys) ==
    [i \in 1..Len(keys) |->
        CHOOSE k \in Range(keys) :
            Cardinality({j \in Range(keys) : NumLt(k.n, j.n)}) = i - 1]

\* OrdinaryOwnPropertyKeys without the sort of the array indices.
OrdinaryOwnPropertyKeys_Unsorted(O) ==
    LET all == PropsKeys(O.properties)
    IN SelectSeq(all, LAMBDA k : isArrayIndex(k))
       \o SelectSeq(all, LAMBDA k : k.type = "String" /\ isArrayIndex(k) = FALSE)
       \o SelectSeq(all, LAMBDA k : k.type = "Symbol")

OrdinaryOwnPropertyKeys(O) ==
    LET all == PropsKeys(O.properties)
    IN SortAscending(SelectSeq(all, LAMBDA k : isArrayIndex(k)))
       \o SelectSeq(all, LAMBDA k : k.type = "String" /\ isArrayIndex(k) = FALSE)
       \o SelectSeq(all, LAMBDA k : k.type = "Symbol")

\* [[OwnPropertyKeys]] of a namespace object: the exports in the order of
\* O.[[Exports]], then the keys of the property map.
ModuleNamespaceOwnPropertyKeys(O) ==
    [i \in DOMAIN O.Exports |-> StrKey(O.Exports[i])]
    \o OrdinaryOwnPropertyKeys(O)

LengthKey == StrKey("length")

\* The index of an array-index key: ToUint32(P), Number(key.stringValue()).
IndexOf(P) == P.n

ArrayCreate(id, length, proto) ==
    LET A == [id |-> id, kind |-> "array", properties |-> <<>>,
              Prototype |-> proto, Extensible |-> Vtrue]
    IN OrdinaryDefineOwnProperty(A, LengthKey,
           Descriptor(F(length), Vtrue, absent, absent, Vfalse, Vfalse)).O

\* The length restored after a failed deletion, with the index itself.
RestoredLength_Index(P) == F(IndexOf(P))

\* The length restored after the deletion of P failed: ToUint32(P) + 1.
RestoredLength(P) == F(NumInc(IndexOf(P)))

\* The keys to delete, without the key equal to the new length.
KeysToDelete_Strict(A, newLen) ==
    SortDescending(SelectSeq(PropsKeys(A.properties),
        LAMBDA k : isArrayIndex(k) /\ NumLt(newLen, IndexOf(k))))

\* The array indices of A that are >= newLen, in descending order.
KeysToDelete(A, newLen) ==
    SortDescending(SelectSeq(PropsKeys(A.properties),
        LAMBDA k : isArrayIndex(k) /\ NumGe(IndexOf(k), newLen)))

\* The deletion loop of ArraySetLength and the steps after it: keys is the
\* list of the array indices to delete, in descending order.
RECURSIVE ArraySetLengthDelete(_, _, _, _)
ArraySetLengthDelete(A, keys, newLenDesc, newWritable) ==
    IF keys = <<>>
    THEN IF newWritable = FALSE
         THEN With(OrdinaryDefineOwnProperty(A, LengthKey,
                       Descriptor(absent, Vfalse, absent, absent, absent, absent)),
                   LAMBDA s : [ret |-> IF s.ret = Vtrue THEN Vtrue ELSE "assert",
                               O |-> s.O])
         ELSE [ret |-> Vtrue, O |-> A]
    ELSE With(OrdinaryDelete(A, Head(keys)), LAMBDA deleted :
            IF deleted.ret = Vfalse
            THEN LET d1 == [newLenDesc EXCEPT !.Value = RestoredLength(Head(keys))]
                     d2 == IF newWritable = FALSE
                           THEN [d1 EXCEPT !.Writable = Vfalse] ELSE d1
                 IN [ret |-> Vfalse,
                     O |-> OrdinaryDefineOwnProperty(deleted.O, LengthKey, d2).O]
            ELSE ArraySetLengthDelete(deleted.O, Tail(keys), newLenDesc,
                                      newWritable))

\* An ArraySetLength that deletes no element.
ArraySetLength_NoDelete(A, Desc) ==
    IF Desc.Value = absent THEN OrdinaryDefineOwnProperty(A, LengthKey, Desc)
    ELSE IF ToUint32(Desc.Value) # ToNumber(Desc.Value)
    THEN [ret |-> "throw", O |-> A]
    ELSE OrdinaryDefineOwnProperty(A, LengthKey,
                                   [Desc EXCEPT !.Value = F(ToUint32(Desc.Value))])

ArraySetLength(A, Desc) ==
    IF Desc.Value = absent THEN OrdinaryDefineOwnProperty(A, LengthKey, Desc)
    ELSE LET newLen == ToUint32(Desc.Value)
             numberLen == ToNumber(Desc.Value)
         IN IF newLen # numberLen THEN [ret |-> "throw", O |-> A]
            ELSE LET newLenDesc == [Desc EXCEPT !.Value = F(newLen)]
                     oldLenDesc == OrdinaryGetOwnProperty(A, LengthKey)
                     oldLen == numberValue(oldLenDesc.Value)
                 IN IF ~(IsDataDescriptor(oldLenDesc)
                         /\ oldLenDesc.Configurable = Vfalse)
                    THEN [ret |-> "assert", O |-> A]
                    ELSE IF NumGe(newLen, oldLen)
                    THEN OrdinaryDefineOwnProperty(A, LengthKey, newLenDesc)
                    ELSE IF oldLenDesc.Writable = Vfalse
                    THEN [ret |-> Vfalse, O |-> A]
                    ELSE LET newWritable ==
                                 newLenDesc.Writable = absent
                                 \/ newLenDesc.Writable = Vtrue
                             d == IF newWritable THEN newLenDesc
                                  ELSE [newLenDesc EXCEPT !.Writable = Vtrue]
                         IN With(OrdinaryDefineOwnProperty(A, LengthKey, d),
                              LAMBDA succeeded :
                                IF succeeded.ret = Vfalse
                                THEN [ret |-> Vfalse, O |-> succeeded.O]
                                ELSE With(KeysToDelete(succeeded.O, newLen),
                                       LAMBDA keys :
                                         ArraySetLengthDelete(succeeded.O, keys,
                                             d, newWritable)))

\* ArrayDefineOwnProperty that never updates length.
ArrayDefineOwnProperty_NoLengthUpdate(A, P, Desc) ==
    IF P = LengthKey THEN ArraySetLength(A, Desc)
    ELSE OrdinaryDefineOwnProperty(A, P, Desc)

\* An ArrayDefineOwnProperty without the test of a non-writable length.
ArrayDefineOwnProperty_Appends(A, P, Desc) ==
    IF P.type = "String" /\ P = LengthKey THEN ArraySetLength(A, Desc)
    ELSE IF isArrayIndex(P)
    THEN LET oldLenDesc == OrdinaryGetOwnProperty(A, LengthKey)
             oldLen == numberValue(oldLenDesc.Value)
             index == IndexOf(P)
         IN With(OrdinaryDefineOwnProperty(A, P, Desc), LAMBDA succeeded :
              IF succeeded.ret = Vfalse THEN [ret |-> Vfalse, O |-> A]
              ELSE IF NumGe(index, oldLen)
              THEN [ret |-> Vtrue,
                    O |-> OrdinaryDefineOwnProperty(succeeded.O, LengthKey,
                              [oldLenDesc EXCEPT !.Value = F(NumInc(index))]).O]
              ELSE [ret |-> Vtrue, O |-> succeeded.O])
    ELSE OrdinaryDefineOwnProperty(A, P, Desc)

ArrayDefineOwnProperty(A, P, Desc) ==
    IF P.type = "String" /\ P = LengthKey THEN ArraySetLength(A, Desc)
    ELSE IF isArrayIndex(P)
    THEN LET oldLenDesc == OrdinaryGetOwnProperty(A, LengthKey)
             oldLen == numberValue(oldLenDesc.Value)
             index == IndexOf(P)
         IN IF ~(IsDataDescriptor(oldLenDesc) /\ oldLenDesc.Configurable = Vfalse)
            THEN [ret |-> "assert", O |-> A]
            ELSE IF NumGe(index, oldLen) /\ oldLenDesc.Writable = Vfalse
            THEN [ret |-> Vfalse, O |-> A]
            ELSE With(OrdinaryDefineOwnProperty(A, P, Desc), LAMBDA succeeded :
                   IF succeeded.ret = Vfalse THEN [ret |-> Vfalse, O |-> A]
                   ELSE IF NumGe(index, oldLen)
                   THEN With(OrdinaryDefineOwnProperty(succeeded.O, LengthKey,
                                 [oldLenDesc EXCEPT !.Value = F(NumInc(index))]),
                             LAMBDA s2 :
                               [ret |-> IF s2.ret = Vtrue THEN Vtrue ELSE "assert",
                                O |-> s2.O])
                   ELSE [ret |-> Vtrue, O |-> succeeded.O])
    ELSE OrdinaryDefineOwnProperty(A, P, Desc)

---------------------------------------------------------------------------
(* Arguments exotic objects (abstract-ops/arguments-operations.mts).  The  *)
(* record of a mapped arguments object holds its ParameterMap, an ordinary *)
(* object, and in env the bindings of the function environment that the    *)
(* closures of the map have captured.                                      *)

\* The closures MakeArgGetter(name, env) and MakeArgSetter(name, env), and
\* the name a closure has captured.
ParameterNames == {"a", "b"}
MakeArgGetter(name) == [a |-> "MakeArgGetter a", b |-> "MakeArgGetter b"][name]
MakeArgSetter(name) == [a |-> "MakeArgSetter a", b |-> "MakeArgSetter b"][name]
CapturedName(closure) ==
    CHOOSE name \in ParameterNames :
        closure \in {MakeArgGetter(name), MakeArgSetter(name)}

\* HasOwnProperty(map, P)
isMapped(args, P) == OrdinaryGetOwnProperty(args.ParameterMap, P) # UndefinedValue
\* Get(map, P): the getter of the map returns env.GetBindingValue(name).
MapGet(args, P) ==
    args.env[CapturedName(PropsGet(args.ParameterMap.properties, P).Get)]
\* Set(map, P, V, false): the setter of the map performs
\* env.SetMutableBinding(name, V).
MapSet(args, P, V) ==
    [args EXCEPT
        !.env[CapturedName(PropsGet(args.ParameterMap.properties, P).Set)] = V]
\* map.Delete(P)
MapDelete(args, P) ==
    [args EXCEPT !.ParameterMap = OrdinaryDelete(@, P).O]

\* [[GetOwnProperty]] that reports the value stored in the property.
ArgumentsGetOwnProperty_Stored(args, P) == OrdinaryGetOwnProperty(args, P)

ArgumentsGetOwnProperty(args, P) ==
    With(OrdinaryGetOwnProperty(args, P), LAMBDA desc :
        IF desc = UndefinedValue THEN desc
        ELSE IF isMapped(args, P) THEN [desc EXCEPT !.Value = MapGet(args, P)]
        ELSE desc)

\* [[DefineOwnProperty]] that keeps the mapping of a property made
\* non-writable.
ArgumentsDefineOwnProperty_KeepsMapping(args, P, Desc) ==
    With(isMapped(args, P), LAMBDA mapped :
        With(OrdinaryDefineOwnProperty(args, P,
                 IF /\ mapped /\ IsDataDescriptor(Desc)
                    /\ Desc.Value = absent
                    /\ Desc.Writable # absent /\ Desc.Writable = Vfalse
                 THEN [Desc EXCEPT !.Value = MapGet(args, P)]
                 ELSE Desc),
             LAMBDA allowed :
                 IF allowed.ret # Vtrue THEN allowed
                 ELSE IF ~mapped THEN allowed
                 ELSE IF IsAccessorDescriptor(Desc)
                 THEN [ret |-> Vtrue, O |-> MapDelete(allowed.O, P)]
                 ELSE IF Desc.Value # absent
                 THEN [ret |-> Vtrue, O |-> MapSet(allowed.O, P, Desc.Value)]
                 ELSE allowed))

ArgumentsDefineOwnProperty(args, P, Desc) ==
    With(isMapped(args, P), LAMBDA mapped :
        With(OrdinaryDefineOwnProperty(args, P,
                 IF /\ mapped /\ IsDataDescriptor(Desc)
                    /\ Desc.Value = absent
                    /\ Desc.Writable # absent /\ Desc.Writable = Vfalse
                 THEN [Desc EXCEPT !.Value = MapGet(args, P)]
                 ELSE Desc),
             LAMBDA allowed :
                 IF allowed.ret # Vtrue THEN allowed
                 ELSE IF ~mapped THEN allowed
                 ELSE IF IsAccessorDescriptor(Desc)
                 THEN [ret |-> Vtrue, O |-> MapDelete(allowed.O, P)]
                 ELSE With(IF Desc.Value # absent
                           THEN MapSet(allowed.O, P, Desc.Value)
                           ELSE allowed.O,
                           LAMBDA written :
                               IF Desc.Writable # absent /\ Desc.Writable = Vfalse
                               THEN [ret |-> Vtrue, O |-> MapDelete(written, P)]
                               ELSE [ret |-> Vtrue, O |-> written])))

ArgumentsGet(args, P) ==
    IF ~isMapped(args, P) THEN OrdinaryGet(args, P)
    ELSE <<"normal", MapGet(args, P)>>

\* The descriptor OrdinarySet works with when the object has no own
\* property P: that of the first object of the prototype chain from p that
\* has one (parent.Set(P, V, Receiver)), or the default one.
RECURSIVE InheritedDescriptor(_, _)
InheritedDescriptor(p, P) ==
    IF p = Vnull THEN Descriptor(Vundefined, Vtrue, absent, absent, Vtrue, Vtrue)
    ELSE With(GetOwnProperty(heap[p], P), LAMBDA desc :
             IF desc = UndefinedValue
             THEN InheritedDescriptor(heap[p].Prototype, P)
             ELSE desc)

\* OrdinarySet(args, P, V, Receiver) with the arguments object as the
\* Receiver, whose [[DefineOwnProperty]] is ArgumentsDefineOwnProperty; the
\* call of a setter is a call of user code, which leaves the object alone
\* here.
OrdinarySet(args, P, V) ==
    With(GetOwnProperty(args, P), LAMBDA existingDescriptor :
        With(IF existingDescriptor = UndefinedValue
             THEN InheritedDescriptor(args.Prototype, P)
             ELSE existingDescriptor,
             LAMBDA ownDesc :
                 IF IsDataDescriptor(ownDesc)
                 THEN IF ownDesc.Writable # absent /\ ownDesc.Writable = Vfalse
                      THEN [ret |-> Vfalse, O |-> args]
                      ELSE ArgumentsDefineOwnProperty(args, P,
                               IF existingDescriptor # UndefinedValue
                               THEN Descriptor(V, absent, absent, absent,
                                               absent, absent)
                               ELSE Descriptor(V, Vtrue, absent, absent,
                                               Vtrue, Vtrue))
                 ELSE IF ownDesc.Set = absent \/ ownDesc.Set = Vundefined
                 THEN [ret |-> Vfalse, O |-> args]
                 ELSE [ret |-> Vtrue, O |-> args]))

\* [[Set]] with the arguments object itself as the Receiver.
ArgumentsSet(args, P, V) ==
    With(IF isMapped(args, P) THEN MapSet(args, P, V) ELSE args,
         LAMBDA written : OrdinarySet(written, P, V))

\* [[Delete]] that leaves the ParameterMap alone.
ArgumentsDelete_KeepsMapping(args, P) == OrdinaryDelete(args, P)

ArgumentsDelete(args, P) ==
    With(isMapped(args, P), LAMBDA mapped :
        With(OrdinaryDelete(args, P), LAMBDA result :
            IF result.ret = Vtrue /\ mapped
            THEN [ret |-> Vtrue, O |-> MapDelete(result.O, P)]
            ELSE result))

---------------------------------------------------------------------------
(* Objects and the dispatch of their internal methods *)

OrdinaryObjectCreate(id, proto) ==
    [id |-> id, kind |-> "ordinary", properties |-> <<>>, Prototype |-> proto,
     Extensible |-> Vtrue]

\* O.GetOwnProperty(P), O.DefineOwnProperty(P, Desc), ...: the method
\* installed on the object when it was created.
GetOwnProperty(O, P) ==
    IF O.kind = "namespace" THEN ModuleNamespaceGetOwnProperty(O, P)
    ELSE IF O.kind = "arguments" THEN ArgumentsGetOwnProperty(O, P)
    ELSE OrdinaryGetOwnProperty(O, P)
DefineOwnProperty(O, P, Desc) ==
    IF O.kind = "namespace" THEN ModuleNamespaceDefineOwnProperty(O, P, Desc)
    ELSE IF O.kind = "array" THEN ArrayDefineOwnProperty(O, P, Desc)
    ELSE OrdinaryDefineOwnProperty(O, P, Desc)
OwnPropertyKeys(O) ==
    IF O.kind = "namespace" THEN ModuleNamespaceOwnPropertyKeys(O)
    ELSE OrdinaryOwnPropertyKeys(O)
Delete(O, P) ==
    IF O.kind = "namespace" THEN ModuleNamespaceDelete(O, P)
    ELSE OrdinaryDelete(O, P)
PreventExtensions(O) ==
    IF O.kind = "namespace" THEN ModuleNamespacePreventExtensions(O)
    ELSE OrdinaryPreventExtensions(O)
IsExtensible(O) ==
    IF O.kind = "namespace" THEN ModuleNamespaceIsExtensible(O)
    ELSE OrdinaryIsExtensible(O)
GetPrototypeOf(O) == OrdinaryGetPrototypeOf(O)
SetPrototypeOf(O, V) ==
    IF O.kind = "namespace" THEN ModuleNamespaceSetPrototypeOf(O, V)
    ELSE OrdinarySetPrototypeOf(O, V)
Get(O, P) ==
    IF O.kind = "namespace" THEN ModuleNamespaceGet(O, P)
    ELSE OrdinaryGet(O, P)
HasProperty(O, P) ==
    IF O.kind = "namespace" THEN ModuleNamespaceHasProperty(O, P)
    ELSE OrdinaryHasProperty(O, P)

---------------------------------------------------------------------------
(* The descriptors a caller can pass: every partial descriptor that is not *)
(* both a data and an accessor descriptor (ToPropertyDescriptor rejects    *)
(* those before any internal method is called).                            *)

Bool3 == {absent, Vtrue, Vfalse}
Descs ==
    {d \in [Value : Values \cup {absent}, Writable : Bool3,
            Get : Functions \cup {Vundefined, absent},
            Set : Functions \cup {Vundefined, absent},
            Enumerable : Bool3, Configurable : Bool3] :
        ~(IsDataDescriptor(d) /\ IsAccessorDescriptor(d))}

NoDesc == Descriptor(absent, absent, absent, absent, absent, absent)

\* new ExecutionContext(), with the fields ScriptEvaluation and the
\* function calls assign.
ExecutionContext(id, Function, Realm, ScriptOrModule, env) ==
    [id |-> id, Function |-> Function, Realm |-> Realm,
     ScriptOrModule |-> ScriptOrModule, VariableEnvironment |-> env,
     LexicalEnvironment |-> env, PrivateEnvironment |-> Vnull,
     poppedForTailCall |-> FALSE]
NoContext == ExecutionContext(-1, Vnull, Vnull, Vnull, Vnull)

\* The position of ScriptEvaluation: no call yet (pc "idle"), between its
\* steps, or returned (pc "returned") with the stack as the call found it
\* in entryStack, its context in scriptContext and its result in result.
Evaluation(pc, scriptRecord, scriptContext, entryStack, result, depth, nextId) ==
    [pc |-> pc, scriptRecord |-> scriptRecord, scriptContext |-> scriptContext,
     entryStack |-> entryStack, result |-> result, depth |-> depth,
     nextId |-> nextId]
ScriptRecord(Realm) == [Realm |-> Realm, ECMAScriptCode |-> "body"]
NormalCompletion(v) == [Type |-> "normal", Value |-> v]
ThrowCompletion(v) == [Type |-> "throw", Value |-> v]
NoEvaluation ==
    Evaluation("idle", ScriptRecord(Vnull), NoContext, <<>>,
               NormalCompletion(absent), 0, 1)

\* A completion record that stands for the JavaScript value undefined of
\* a variable no completion was assigned to.
NoResult == [Type |-> "undefined", Value |-> absent]

\* No call of HostLoadImportedModule yet.  loads[l] holds the variables
\* the callback of call l closes over; finished lists the calls of
\* FinishLoadingImportedModule and invoked the invocations of callbacks,
\* each with its completion.
NoLoading ==
    [pc |-> "idle", current |-> 0, loads |-> <<>>, finished |-> <<>>,
     invoked |-> <<>>, entryStack |-> <<>>, stackOk |-> TRUE]

JobsIdle ==
    /\ jobQueue = <<>>
    /\ ran = <<>>
    /\ loading = NoLoading

\* The agent before any script is evaluated.
AgentIdle ==
    /\ JobsIdle
    /\ executionContextStack = <<>>
    /\ hostDefinedOptions = [boost |-> absent, loadImportedModule |-> absent]
    /\ evaluation = NoEvaluation

\* The record of a call of an internal method.
Call(op, o, P, Desc, current, extensible, ret) ==
    [op |-> op, O |-> o, P |-> P, Desc |-> Desc, current |-> current,
     extensible |-> extensible, ret |-> ret]

---------------------------------------------------------------------------
(* Specification SpecDefine: one ordinary object, its property map driven  *)
(* by [[DefineOwnProperty]], [[Delete]] and [[PreventExtensions]].         *)

DefineKeys == {StrKey("a")}

InitDefine ==
    /\ heap = [o \in {"o"} |-> OrdinaryObjectCreate(o, Vnull)]
    /\ last = Call("init", "o", StrKey("a"), NoDesc, UndefinedValue, Vtrue, Vtrue)
    /\ modules = NoModules
    /\ defined = {}
    /\ AgentIdle

DoDefineOwnProperty(o, P, Desc) ==
    LET O == heap[o]
    IN \E r \in {DefineOwnProperty(O, P, Desc)} :
       /\ heap' = [heap EXCEPT ![o] = r.O]
       /\ last' = Call("DefineOwnProperty", o, P, Desc,
                       GetOwnProperty(O, P), IsExtensible(O), r.ret)
       /\ UNCHANGED <<modules, defined, agentVars, jobVars>>

DoDelete(o, P) ==
    LET O == heap[o]
    IN \E r \in {Delete(O, P)} :
       /\ heap' = [heap EXCEPT ![o] = r.O]
       /\ last' = Call("Delete", o, P, NoDesc,
                       GetOwnProperty(O, P), IsExtensible(O), r.ret)
       /\ UNCHANGED <<modules, defined, agentVars, jobVars>>

DoPreventExtensions(o) ==
    LET O == heap[o]
    IN \E r \in {PreventExtensions(O)} :
       /\ heap' = [heap EXCEPT ![o] = r.O]
       /\ last' = Call("PreventExtensions", o, StrKey("a"), NoDesc,
                       UndefinedValue, IsExtensible(O), r.ret)
       /\ UNCHANGED <<modules, defined, agentVars, jobVars>>

NextDefine ==
    \/ \E P \in DefineKeys, Desc \in Descs : DoDefineOwnProperty("o", P, Desc)
    \/ \E P \in DefineKeys : DoDelete("o", P)
    \/ DoPreventExtensions("o")

SpecDefine == InitDefine /\ [][NextDefine]_vars

---------------------------------------------------------------------------
(* Specification SpecHas: two ordinary objects and the namespace object of *)
(* a module, their properties and prototypes changing while the module is  *)
(* linked and its binding initialized.                                     *)

HasKeys == {StrKey("x"), StrKey("y"), SymKey("toStringTag")}
\* The keys defined on the objects.
HasDefineKeys == {StrKey("x"), SymKey("toStringTag")}
HasDescs == {Descriptor("v1", Vtrue, absent, absent, Vtrue, Vtrue)}
HasObjects == {"o1", "o2", "ns"}

InitHas ==
    /\ heap = [o \in HasObjects |->
                 IF o = "o1" THEN OrdinaryObjectCreate("o1", "o2")
                 ELSE IF o = "o2" THEN OrdinaryObjectCreate("o2", Vnull)
                 ELSE ModuleNamespaceCreate("ns", "m", <<"x">>)]
    /\ last = Call("init", "o1", StrKey("x"), NoDesc, UndefinedValue, Vtrue, Vtrue)
    /\ modules = [m \in {"m"} |-> ModuleRecord({"x"})]
    /\ defined = {}
    /\ AgentIdle

\* The calls of SpecHas record only the method and its result.
HasCall(op, o, ret) ==
    Call(op, o, StrKey("x"), NoDesc, UndefinedValue, Vtrue, ret)

HasDefineOwnProperty(o, P, Desc) ==
    \E r \in {DefineOwnProperty(heap[o], P, Desc)} :
       /\ heap' = [heap EXCEPT ![o] = r.O]
       /\ last' = HasCall("DefineOwnProperty", o, r.ret)
       /\ UNCHANGED <<modules, defined, agentVars, jobVars>>

HasDelete(o, P) ==
    \E r \in {Delete(heap[o], P)} :
       /\ heap' = [heap EXCEPT ![o] = r.O]
       /\ last' = HasCall("Delete", o, r.ret)
       /\ UNCHANGED <<modules, defined, agentVars, jobVars>>

HasSetPrototypeOf(o, V) ==
    \E r \in {SetPrototypeOf(heap[o], V)} :
       /\ heap' = [heap EXCEPT ![o] = r.O]
       /\ last' = HasCall("SetPrototypeOf", o, r.ret)
       /\ UNCHANGED <<modules, defined, agentVars, jobVars>>

HasPreventExtensions(o) ==
    \E r \in {PreventExtensions(heap[o])} :
       /\ heap' = [heap EXCEPT ![o] = r.O]
       /\ last' = HasCall("PreventExtensions", o, r.ret)
       /\ UNCHANGED <<modules, defined, agentVars, jobVars>>

\* Linking module m creates its environment.
InitializeEnvironment(m) ==
    /\ modules[m].Environment = Vundefined
    /\ modules' = [modules EXCEPT ![m].Environment = "env"]
    /\ UNCHANGED <<heap, last, defined, agentVars, jobVars>>

\* Evaluating module m initializes or assigns its binding N.
InitializeBinding(m, N, v) ==
    /\ modules[m].Environment # Vundefined
    /\ modules' = [modules EXCEPT ![m].bindings[N] = v]
    /\ UNCHANGED <<heap, last, defined, agentVars, jobVars>>

NextHas ==
    \/ \E o \in HasObjects, P \in HasDefineKeys, Desc \in HasDescs :
          HasDefineOwnProperty(o, P, Desc)
    \/ \E o \in HasObjects, P \in HasDefineKeys : HasDelete(o, P)
    \/ \E o \in HasObjects, V \in HasObjects \cup {Vnull} : HasSetPrototypeOf(o, V)
    \/ \E o \in HasObjects : HasPreventExtensions(o)
    \/ InitializeEnvironment("m")
    \/ \E v \in {"v1"} : InitializeBinding("m", "x", v)

SpecHas == InitHas /\ [][NextHas]_vars

\* C5: for every object O and key P, O.HasProperty(P) is true if and only
\* if O.GetOwnProperty(P) is not undefined, or O's prototype is not null
\* and the prototype's HasProperty(P) is true.
C5_HasProperty ==
    \A o \in DOMAIN heap : \A P \in HasKeys :
        LET O == heap[o]
            parent == GetPrototypeOf(O)
        IN (HasProperty(O, P) = Vtrue)
           <=> \/ GetOwnProperty(O, P) # UndefinedValue
               \/ (parent # Vnull /\ HasProperty(heap[parent], P) = Vtrue)

\* An ordinary object inherits a key from the namespace object that is its
\* prototype, while the exported binding is still uninitialized.
C5_Witness ==
    /\ heap["o2"].Prototype = "ns"
    /\ heap["o1"].Prototype = "o2"
    /\ heap["o1"].properties = <<>>
    /\ heap["o2"].properties = <<>>
    /\ HasProperty(heap["o1"], StrKey("x")) = Vtrue
    /\ IsThrowDescriptor(GetOwnProperty(heap["ns"], StrKey("x")))
    /\ HasProperty(heap["o1"], StrKey("y")) = Vfalse

---------------------------------------------------------------------------
(* Properties of the descriptor kernel, checked under SpecDefine *)

Kind(d) == IF IsDataDescriptor(d) THEN "data" ELSE "accessor"

\* C1: once a property is non-configurable, no [[DefineOwnProperty]] call
\* (accepted or rejected) changes its kind, its [[Configurable]] or its
\* [[Enumerable]]; if it is moreover a non-writable data property, its
\* [[Value]] (under SameValue) and its [[Writable]] do not change either.
C1_NonConfigurableIsFrozen ==
    [][\A o \in DOMAIN heap : \A P \in DefineKeys :
        (/\ last'.op = "DefineOwnProperty"
         /\ PropsHas(heap[o].properties, P)
         /\ PropsGet(heap[o].properties, P).Configurable = Vfalse)
        => /\ PropsHas(heap'[o].properties, P)
           /\ LET old == PropsGet(heap[o].properties, P)
                  new == PropsGet(heap'[o].properties, P)
              IN /\ Kind(new) = Kind(old)
                 /\ new.Configurable = old.Configurable
                 /\ new.Enumerable = old.Enumerable
                 /\ (Kind(old) = "data" /\ old.Writable = Vfalse)
                    => /\ SameValue(new.Value, old.Value) = Vtrue
                       /\ new.Writable = old.Writable]_vars

\* A define was accepted on a non-configurable writable data property and
\* changed its value.
C1_Witness ==
    /\ last.op = "DefineOwnProperty"
    /\ last.ret = Vtrue
    /\ last.current # UndefinedValue
    /\ last.current.Configurable = Vfalse
    /\ last.current.Writable = Vtrue
    /\ last.Desc.Value # absent
    /\ last.Desc.Value # last.current.Value
    /\ PropsGet(heap[last.O].properties, last.P).Value = last.Desc.Value

\* C2: with current absent, ValidateAndApplyPropertyDescriptor returns
\* false when the object is not extensible, and otherwise returns true and
\* stores a fully specified entry: a data entry (Value defaulting to
\* undefined, Writable/Enumerable/Configurable to false) for a generic or
\* data Desc, an accessor entry (Get/Set defaulting to undefined,
\* Enumerable/Configurable to false) for an accessor Desc.  Defining
\* {Value: v1} on a fresh key yields {v1, false, false, false}, and a later
\* define of {Value: v2} on it is rejected.
C2_DefineOnAbsent ==
    /\ (last.op = "DefineOwnProperty" /\ last.current = UndefinedValue)
       => IF last.extensible = Vfalse THEN last.ret = Vfalse
          ELSE /\ last.ret = Vtrue
               /\ PropsHas(heap[last.O].properties, last.P)
               /\ LET D == last.Desc
                      e == PropsGet(heap[last.O].properties, last.P)
                      OrFalse(x) == IF x = absent THEN Vfalse ELSE x
                      OrUndefined(x) == IF x = absent THEN Vundefined ELSE x
                  IN /\ e.Enumerable = OrFalse(D.Enumerable)
                     /\ e.Configurable = OrFalse(D.Configurable)
                     /\ IF D.Get = absent /\ D.Set = absent
                        THEN /\ e.Value = OrUndefined(D.Value)
                             /\ e.Writable = OrFalse(D.Writable)
                             /\ e.Get = absent /\ e.Set = absent
                        ELSE /\ e.Get = OrUndefined(D.Get)
                             /\ e.Set = OrUndefined(D.Set)
                             /\ e.Value = absent /\ e.Writable = absent
    /\ (/\ last.op = "DefineOwnProperty"
        /\ last.current = Descriptor("v1", Vfalse, absent, absent, Vfalse, Vfalse)
        /\ last.Desc = Descriptor("v2", absent, absent, absent, absent, absent))
       => last.ret = Vfalse

\* {Value: v1} was just defined on a key the extensible object did not own.
C2_Witness ==
    /\ last.op = "DefineOwnProperty"
    /\ last.current = UndefinedValue
    /\ last.extensible = Vtrue
    /\ last.Desc = Descriptor("v1", absent, absent, absent, absent, absent)
    /\ PropsGet(heap[last.O].properties, last.P)
         = Descriptor("v1", Vfalse, absent, absent, Vfalse, Vfalse)

\* The changes section 4.2 of the specification disallows.
Disallowed(extensible, Desc, current) ==
    IF current = UndefinedValue THEN extensible = Vfalse
    ELSE /\ \E f \in DOMAIN Desc : Desc[f] # absent
         /\ current.Configurable = Vfalse
         /\ \/ Desc.Configurable = Vtrue
            \/ Desc.Enumerable \in {Vtrue, Vfalse} \ {current.Enumerable}
            \/ (Desc.Get # absent \/ Desc.Set # absent) /\ current.Get = absent
            \/ (Desc.Value # absent \/ Desc.Writable # absent) /\ current.Value = absent
            \/ /\ current.Get # absent
               /\ \/ Desc.Get \notin {absent, current.Get}
                  \/ Desc.Set \notin {absent, current.Set}
            \/ /\ current.Value # absent
               /\ current.Writable = Vfalse
               /\ \/ Desc.Writable = Vtrue
                  \/ Desc.Value \notin {absent, current.Value}

\* C3: ValidateAndApplyPropertyDescriptor returns the boolean true or the
\* boolean false for every extensible, Desc and current - false exactly for
\* the disallowed changes - and never anything else (no throw, no failed
\* assertion).
C3_BooleanResult ==
    last.op = "DefineOwnProperty"
    => /\ last.ret \in {Vtrue, Vfalse}
       /\ (last.ret = Vfalse) <=> Disallowed(last.extensible, last.Desc, last.current)

\* A disallowed change of an existing property was reported as false.
C3_Witness ==
    /\ last.op = "DefineOwnProperty"
    /\ last.current # UndefinedValue
    /\ last.current.Get = "f"
    /\ last.Desc.Get = Vundefined
    /\ last.ret = Vfalse

IsDataEntry(e) ==
    e.Value # absent /\ e.Writable # absent /\ e.Get = absent /\ e.Set = absent
IsAccessorEntry(e) ==
    e.Get # absent /\ e.Set # absent /\ e.Value = absent /\ e.Writable = absent

\* C4: every stored entry is a data entry (Value and Writable present, Get
\* and Set absent) or an accessor entry (Get and Set present, Value and
\* Writable absent), never both and never neither; a data<->accessor
\* conversion happens only when current.[[Configurable]] is true, keeps
\* Enumerable and Configurable unless Desc supplies them, and gives the new
\* kind's fields their defaults unless Desc supplies them.
C4_EntryShape ==
    /\ \A o \in DOMAIN heap : \A i \in DOMAIN heap[o].properties :
          LET e == heap[o].properties[i].desc
          IN IsDataEntry(e) # IsAccessorEntry(e)
    /\ (/\ last.op = "DefineOwnProperty"
        /\ last.current # UndefinedValue
        /\ LET e == PropsGet(heap[last.O].properties, last.P)
           IN IsDataEntry(e) # (last.current.Value # absent))
       => LET e == PropsGet(heap[last.O].properties, last.P)
              D == last.Desc
              Or(x, y) == IF x = absent THEN y ELSE x
          IN /\ last.ret = Vtrue
             /\ last.current.Configurable = Vtrue
             /\ e.Enumerable = Or(D.Enumerable, last.current.Enumerable)
             /\ e.Configurable = Or(D.Configurable, last.current.Configurable)
             /\ IF last.current.Value # absent
                THEN /\ e.Get = Or(D.Get, Vundefined)
                     /\ e.Set = Or(D.Set, Vundefined)
                ELSE /\ e.Value = Or(D.Value, Vundefined)
                     /\ e.Writable = Or(D.Writable, Vfalse)

\* A data property was just converted to an accessor property.
C4_Witness ==
    /\ last.op = "DefineOwnProperty"
    /\ last.current # UndefinedValue
    /\ last.current.Value = "v1"
    /\ last.Desc.Get = "f"
    /\ last.ret = Vtrue
    /\ IsAccessorEntry(PropsGet(heap[last.O].properties, last.P))

---------------------------------------------------------------------------
(* Specification SpecKeys: one ordinary object whose properties are        *)
(* created and deleted under keys of every class, and whose keys are       *)
(* listed by [[OwnPropertyKeys]].                                          *)

MaxProperties == 4

KeysKeys ==
    {IdxKey(Num(0, 0)), IdxKey(Num(0, 1)), IdxKey(Num(31, Base - 2)),
     IdxKey(Two32Minus1), IdxKey(Num(32, 0)),
     StrKey("a"), StrKey("b"), SymKey("s"), SymKey("t")}

KeysDesc == Descriptor("v1", Vtrue, absent, absent, Vtrue, Vtrue)

KeysCall(op, o, P, ret, keys) ==
    [op |-> op, O |-> o, P |-> P, ret |-> ret, keys |-> keys]

InitKeys ==
    /\ heap = [o \in {"o"} |-> OrdinaryObjectCreate(o, Vnull)]
    /\ last = KeysCall("init", "o", StrKey("a"), Vtrue, <<>>)
    /\ modules = NoModules
    /\ defined = {}
    /\ AgentIdle

KeysDefineOwnProperty(o, P) ==
    \E r \in {DefineOwnProperty(heap[o], P, KeysDesc)} :
       /\ Len(heap[o].properties) < MaxProperties
       /\ heap' = [heap EXCEPT ![o] = r.O]
       /\ last' = KeysCall("DefineOwnProperty", o, P, r.ret, <<>>)
       /\ UNCHANGED <<modules, defined, agentVars, jobVars>>

KeysDelete(o, P) ==
    \E r \in {Delete(heap[o], P)} :
       /\ heap' = [heap EXCEPT ![o] = r.O]
       /\ last' = KeysCall("Delete", o, P, r.ret, <<>>)
       /\ UNCHANGED <<modules, defined, agentVars, jobVars>>

KeysOwnPropertyKeys(o) ==
    /\ last' = KeysCall("OwnPropertyKeys", o, StrKey("a"), Vtrue,
                        OwnPropertyKeys(heap[o]))
    /\ UNCHANGED <<heap, modules, defined, agentVars, jobVars>>

NextKeys ==
    \/ \E P \in KeysKeys : KeysDefineOwnProperty("o", P)
    \/ \E P \in KeysKeys : KeysDelete("o", P)
    \/ KeysOwnPropertyKeys("o")

SpecKeys == InitKeys /\ [][NextKeys]_vars

\* The class of a key in the listing: 0 for the numerically ordered keys,
\* 1 for the other String keys, 2 for the Symbol keys.
ClassByIntegerIndex(k) ==
    IF isIntegerIndex(k) THEN 0 ELSE IF k.type = "String" THEN 1 ELSE 2
ClassByArrayIndex(k) ==
    IF isArrayIndex(k) THEN 0 ELSE IF k.type = "String" THEN 1 ELSE 2

\* keys lists every own key of O once, class by class, the keys of class 0
\* by ascending number and the others by creation.
ListsInOrder(O, keys, class) ==
    /\ Len(keys) = Len(O.properties)
    /\ Range(keys) = Range(PropsKeys(O.properties))
    /\ \A i, j \in DOMAIN keys :
        i < j =>
            /\ class[keys[i]] <= class[keys[j]]
            /\ (class[keys[i]] = 0 /\ class[keys[j]] = 0)
                   => NumLt(keys[i].n, keys[j].n)
            /\ (class[keys[i]] = class[keys[j]] /\ class[keys[i]] # 0)
                   => PropsIndex(O.properties, keys[i])
                          < PropsIndex(O.properties, keys[j])

\* C6, as stated: OwnPropertyKeys returns every own key exactly once, the
\* integer-index keys first in ascending numeric order, then the other
\* String keys in insertion order, then the Symbol keys in insertion order.
C6_IntegerIndexOrder ==
    last.op = "OwnPropertyKeys" =>
        ListsInOrder(heap[last.O], last.keys,
                     [k \in KeysKeys |-> ClassByIntegerIndex(k)])

\* C6, amended: OwnPropertyKeys returns every own key exactly once, the
\* array-index keys (canonical n < 2^32 - 1) first in ascending numeric
\* order, then every other String key, the integer indices from 2^32 - 1
\* up among them, in insertion order, then the Symbol keys in insertion
\* order.
C6_ArrayIndexOrder ==
    last.op = "OwnPropertyKeys" =>
        ListsInOrder(heap[last.O], last.keys,
                     [k \in KeysKeys |-> ClassByArrayIndex(k)])

\* The keys of an object are listed that holds two array indices created
\* in descending order and the key 4294967295 created after a name.
C6_Witness ==
    /\ last.op = "OwnPropertyKeys"
    /\ LET props == heap[last.O].properties
       IN /\ \E i, j \in DOMAIN props :
                 /\ i < j
                 /\ isArrayIndex(props[i].key) /\ isArrayIndex(props[j].key)
                 /\ NumLt(props[j].key.n, props[i].key.n)
          /\ \E i, j \in DOMAIN props :
                 /\ i < j
                 /\ props[i].key = StrKey("a")
                 /\ props[j].key = IdxKey(Two32Minus1)

---------------------------------------------------------------------------
(* Specification SpecArrayIndex: an array created empty, to which only     *)
(* element definitions and deletions are applied.                          *)

ArrayIndexKeys ==
    {IdxKey(Num(0, 0)), IdxKey(Num(0, 1)), IdxKey(Num(31, Base - 2)),
     IdxKey(Two32Minus1)}

ElementDescs ==
    {Descriptor("v1", Vtrue, absent, absent, Vtrue, Vtrue),
     Descriptor("v1", Vtrue, absent, absent, Vtrue, Vfalse)}

InitArrayIndex ==
    /\ heap = [o \in {"A"} |-> ArrayCreate(o, Zero, Vnull)]
    /\ last = Call("init", "A", LengthKey, NoDesc, UndefinedValue, Vtrue, Vtrue)
    /\ modules = NoModules
    /\ defined = {}
    /\ AgentIdle

ArrayDoDefineOwnProperty(o, P, Desc) ==
    LET O == heap[o]
    IN \E r \in {DefineOwnProperty(O, P, Desc)} :
       /\ heap' = [heap EXCEPT ![o] = r.O]
       /\ last' = Call("DefineOwnProperty", o, P, Desc,
                       GetOwnProperty(O, P), IsExtensible(O), r.ret)
       /\ defined' = IF r.ret = Vtrue /\ P # LengthKey
                     THEN defined \cup {P} ELSE defined
       /\ UNCHANGED <<modules, agentVars, jobVars>>

ArrayDoDelete(o, P) ==
    LET O == heap[o]
    IN \E r \in {Delete(O, P)} :
       /\ heap' = [heap EXCEPT ![o] = r.O]
       /\ last' = Call("Delete", o, P, NoDesc,
                       GetOwnProperty(O, P), IsExtensible(O), r.ret)
       /\ UNCHANGED <<modules, defined, agentVars, jobVars>>

NextArrayIndex ==
    \/ \E P \in ArrayIndexKeys, Desc \in ElementDescs :
           ArrayDoDefineOwnProperty("A", P, Desc)
    \/ \E P \in ArrayIndexKeys : ArrayDoDelete("A", P)

SpecArrayIndex == InitArrayIndex /\ [][NextArrayIndex]_vars

\* The value of the length property of A, as a number.
LengthOf(A) == numberValue(PropsGet(A.properties, LengthKey).Value)

\* One more than the largest number of a set of keys, +0 for no key.
OnePastLargest(keys) ==
    IF keys = {} THEN Zero
    ELSE NumInc((CHOOSE k \in keys : \A j \in keys : ~NumLt(k.n, j.n)).n)

\* C7, as stated: while only elements are defined on and deleted from an
\* array created empty, length is one more than the largest integer-index
\* key ever successfully defined, +0 if there is none; a deletion leaves
\* the set of the keys ever defined, so never lowers length.
C7_LengthPastIntegerIndex ==
    LengthOf(heap["A"]) = OnePastLargest({k \in defined : isIntegerIndex(k)})

\* C7, amended: while only elements are defined on and deleted from an
\* array created empty, length is one more than the largest array-index
\* key (canonical n < 2^32 - 1) ever successfully defined, +0 if there is
\* none, whether or not the element is still there; a key from 2^32 - 1 up
\* is an ordinary property and leaves length alone.
C7_LengthPastArrayIndex ==
    LengthOf(heap["A"]) = OnePastLargest({k \in defined : isArrayIndex(k)})

\* Index 4294967294 was defined and deleted again, the key 4294967295 is a
\* property of the array, and length is 4294967295.
C7_Witness ==
    /\ IdxKey(Num(31, Base - 2)) \in defined
    /\ ~PropsHas(heap["A"].properties, IdxKey(Num(31, Base - 2)))
    /\ PropsHas(heap["A"].properties, IdxKey(Two32Minus1))
    /\ last.op = "Delete"
    /\ LengthOf(heap["A"]) = Two32Minus1

---------------------------------------------------------------------------
(* Specification SpecArray: an array whose elements are defined and        *)
(* deleted and whose length is defined explicitly.                         *)

ArrayKeys == {IdxKey(Num(0, 0)), IdxKey(Num(0, 1)), IdxKey(Num(31, Base - 2))}

LengthValues == {"n0", "n1", "n2", "n4294967296", Vundefined}

\* The descriptors of a length definition: a value and possibly
\* [[Writable]], and those that ask for an enumerable, an accessor and a
\* configurable length.
LengthDescs ==
    {Descriptor(v, w, absent, absent, absent, absent) :
         v \in LengthValues, w \in Bool3}
    \cup {Descriptor("n0", absent, absent, absent, Vtrue, absent),
          Descriptor(absent, absent, "f", absent, absent, absent),
          Descriptor(absent, absent, absent, absent, absent, Vtrue)}

InitArray ==
    /\ heap = [o \in {"A"} |-> ArrayCreate(o, Zero, Vnull)]
    /\ last = Call("init", "A", LengthKey, NoDesc, UndefinedValue, Vtrue, Vtrue)
    /\ modules = NoModules
    /\ defined = {}
    /\ AgentIdle

ArrayDefineElement(o, P, Desc) ==
    LET O == heap[o]
    IN \E r \in {DefineOwnProperty(O, P, Desc)} :
       /\ heap' = [heap EXCEPT ![o] = r.O]
       /\ last' = Call("DefineOwnProperty", o, P, Desc,
                       GetOwnProperty(O, P), IsExtensible(O), r.ret)
       /\ UNCHANGED <<modules, defined, agentVars, jobVars>>

ArrayDefineLength(o, Desc) ==
    LET O == heap[o]
    IN \E r \in {DefineOwnProperty(O, LengthKey, Desc)} :
       /\ heap' = [heap EXCEPT ![o] = r.O]
       /\ last' = Call("DefineOwnProperty", o, LengthKey, Desc,
                       GetOwnProperty(O, LengthKey), IsExtensible(O), r.ret)
       /\ UNCHANGED <<modules, defined, agentVars, jobVars>>

ArrayDeleteElement(o, P) ==
    LET O == heap[o]
    IN \E r \in {Delete(O, P)} :
       /\ heap' = [heap EXCEPT ![o] = r.O]
       /\ last' = Call("Delete", o, P, NoDesc,
                       GetOwnProperty(O, P), IsExtensible(O), r.ret)
       /\ UNCHANGED <<modules, defined, agentVars, jobVars>>

NextArray ==
    \/ \E P \in ArrayKeys, Desc \in ElementDescs : ArrayDefineElement("A", P, Desc)
    \/ \E Desc \in LengthDescs : ArrayDefineLength("A", Desc)
    \/ \E P \in ArrayKeys : ArrayDeleteElement("A", P)

SpecArray == InitArray /\ [][NextArray]_vars

\* The own array-index keys of A with index >= n.
ElementsFrom(A, n) ==
    {k \in Range(PropsKeys(A.properties)) : isArrayIndex(k) /\ NumGe(k.n, n)}

\* The entries of A other than length and other than the keys in gone.
EntriesBut(A, gone) ==
    SelectSeq(A.properties, LAMBDA e : e.key # LengthKey /\ e.key \notin gone)

\* The step is a length definition that asks for the value n below the
\* length of the writable length property of A, with a descriptor of a
\* value and possibly [[Writable]].
ShrinksTo(A, call, n) ==
    /\ call.op = "DefineOwnProperty" /\ call.P = LengthKey
    /\ call.Desc.Value \in Numbers
    /\ ToNumber(call.Desc.Value) = n /\ ToUint32(call.Desc.Value) = n
    /\ call.Desc.Enumerable = absent /\ call.Desc.Configurable = absent
    /\ NumLt(n, LengthOf(A))
    /\ PropsGet(A.properties, LengthKey).Writable = Vtrue

Blocking(A, n) ==
    {k \in ElementsFrom(A, n) : PropsGet(A.properties, k).Configurable = Vfalse}

---------------------------------------------------------------------------
(* Specification SpecScript: scripts evaluated one after the other by an   *)
(* agent, each ScriptEvaluation followed step by step (engine.mts).        *)

MaxContexts == 5
MaxDepth == 2

Realms == {"realm1", "realm2"}
\* realm.GlobalEnv
GlobalEnv(Realm) == <<"GlobalEnv", Realm>>

\* A pop that removes the bottom of the stack.
ExecutionContextStackPop_Bottom(stack, ctx) ==
    IF ~ctx.poppedForTailCall
    THEN [stack |-> SubSeq(stack, 2, Len(stack)),
          ok |-> stack # <<>> /\ stack[Len(stack)] = ctx]
    ELSE [stack |-> stack, ok |-> TRUE]

\* ExecutionContextStack.pop that pops only a context marked as popped for
\* a tail call.
ExecutionContextStackPop_OnlyIfMarked(stack, ctx) ==
    IF ctx.poppedForTailCall
    THEN [stack |-> SubSeq(stack, 1, Len(stack) - 1),
          ok |-> stack # <<>> /\ stack[Len(stack)] = ctx]
    ELSE [stack |-> stack, ok |-> TRUE]

\* ExecutionContextStack.pop(ctx): ok is the assertion popped === ctx.
ExecutionContextStackPop(stack, ctx) ==
    IF ~ctx.poppedForTailCall
    THEN [stack |-> SubSeq(stack, 1, Len(stack) - 1),
          ok |-> stack # <<>> /\ stack[Len(stack)] = ctx]
    ELSE [stack |-> stack, ok |-> TRUE]

\* The stacks a call of ScriptEvaluation may find: empty, or with the
\* context of the caller.
EntryStacks ==
    {<<>>, <<ExecutionContext(0, "f", "realm1", Vnull, GlobalEnv("realm1"))>>}

InitScript ==
    /\ heap = [o \in {"o"} |-> OrdinaryObjectCreate(o, Vnull)]
    /\ last = Call("init", "o", StrKey("a"), NoDesc, UndefinedValue, Vtrue, Vtrue)
    /\ modules = NoModules
    /\ defined = {}
    /\ executionContextStack \in EntryStacks
    /\ hostDefinedOptions \in {[boost |-> absent, loadImportedModule |-> absent], [boost |-> "evaluateScript", loadImportedModule |-> absent]}
    /\ evaluation = NoEvaluation
    /\ JobsIdle

\* ScriptEvaluation(scriptRecord), up to the push of the script context;
\* with boost.evaluateScript installed, the whole call: the host's function
\* gives the result and the stack is not touched.
ScriptEvaluation(scriptRecord) ==
    /\ evaluation.pc \in {"idle", "returned"}
    /\ evaluation.nextId < MaxContexts
    /\ IF hostDefinedOptions.boost # absent
       THEN /\ \E result \in {NormalCompletion(Vundefined), ThrowCompletion("e")} :
                   evaluation' = Evaluation("returned", scriptRecord, NoContext,
                                     executionContextStack, result, 0,
                                     evaluation.nextId + 1)
            /\ UNCHANGED executionContextStack
       ELSE LET globalEnv == GlobalEnv(scriptRecord.Realm)
                scriptContext == ExecutionContext(evaluation.nextId, Vnull,
                                     scriptRecord.Realm, scriptRecord, globalEnv)
            IN /\ executionContextStack' =
                      Append(executionContextStack, scriptContext)
               /\ evaluation' = Evaluation("instantiate", scriptRecord,
                                    scriptContext, executionContextStack,
                                    NormalCompletion(absent), 0,
                                    evaluation.nextId + 1)
    /\ UNCHANGED <<objectVars, jobVars, hostDefinedOptions>>

\* GlobalDeclarationInstantiation(scriptBody, globalEnv) completes normally
\* or throws; Evaluate is skipped after a throw.
GlobalDeclarationInstantiation(completion) ==
    /\ evaluation.pc = "instantiate"
    /\ evaluation' =
           IF completion.Type = "normal"
           THEN [evaluation EXCEPT !.pc = "evaluate", !.result = completion]
           ELSE [evaluation EXCEPT !.pc = "exit", !.result = completion]
    /\ UNCHANGED <<objectVars, jobVars, executionContextStack, hostDefinedOptions>>

\* Evaluate(scriptBody) calls a function: the call pushes its context.
EvaluateCall(F0) ==
    /\ evaluation.pc = "evaluate"
    /\ evaluation.depth < MaxDepth
    /\ evaluation.nextId < MaxContexts
    /\ executionContextStack' =
           Append(executionContextStack,
               ExecutionContext(evaluation.nextId, F0, evaluation.scriptRecord.Realm,
                   evaluation.scriptRecord,
                   <<"FunctionEnv", evaluation.nextId>>))
    /\ evaluation' = [evaluation EXCEPT !.depth = @ + 1, !.nextId = @ + 1]
    /\ UNCHANGED <<objectVars, jobVars, hostDefinedOptions>>

\* The called function returns or throws: the call pops its context.
EvaluateReturn ==
    /\ evaluation.pc = "evaluate"
    /\ evaluation.depth > 0
    /\ executionContextStack' =
           ExecutionContextStackPop(executionContextStack,
               executionContextStack[Len(executionContextStack)]).stack
    /\ evaluation' = [evaluation EXCEPT !.depth = @ - 1]
    /\ UNCHANGED <<objectVars, jobVars, hostDefinedOptions>>

\* Evaluate(scriptBody) completes, with the script context running again.
Evaluate(completion) ==
    /\ evaluation.pc = "evaluate"
    /\ evaluation.depth = 0
    /\ evaluation' = [evaluation EXCEPT !.pc = "exit", !.result = completion]
    /\ UNCHANGED <<objectVars, jobVars, executionContextStack, hostDefinedOptions>>

\* The end of ScriptEvaluation without the replacement of an empty normal
\* result.
ScriptEvaluationReturn_KeepsEmpty ==
    /\ evaluation.pc = "exit"
    /\ LET popped == ExecutionContextStackPop(executionContextStack,
                                              evaluation.scriptContext)
       IN /\ executionContextStack' = popped.stack
          /\ evaluation' = [evaluation EXCEPT
                 !.pc = IF popped.ok THEN "returned" ELSE "assert"]
    /\ UNCHANGED <<objectVars, jobVars, hostDefinedOptions>>

\* The end of ScriptEvaluation: an empty normal result becomes undefined,
\* the script context is popped and the result returned.
ScriptEvaluationReturn ==
    /\ evaluation.pc = "exit"
    /\ LET result == IF evaluation.result.Type = "normal"
                        /\ evaluation.result.Value = absent
                     THEN NormalCompletion(Vundefined) ELSE evaluation.result
           popped == ExecutionContextStackPop(executionContextStack,
                                              evaluation.scriptContext)
       IN /\ executionContextStack' = popped.stack
          /\ evaluation' = [evaluation EXCEPT
                 !.pc = IF popped.ok THEN "returned" ELSE "assert",
                 !.result = result]
    /\ UNCHANGED <<objectVars, jobVars, hostDefinedOptions>>

Completions ==
    {NormalCompletion(absent), NormalCompletion("v1"), ThrowCompletion("e")}

NextScript ==
    \/ \E Realm \in Realms : ScriptEvaluation(ScriptRecord(Realm))
    \/ \E c \in {NormalCompletion(absent), ThrowCompletion("SyntaxError")} :
           GlobalDeclarationInstantiation(c)
    \/ \E F0 \in Functions : EvaluateCall(F0)
    \/ EvaluateReturn
    \/ \E c \in Completions : Evaluate(c)
    \/ ScriptEvaluationReturn

SpecScript == InitScript /\ [][NextScript]_vars

\* The running or returned ScriptEvaluation has pushed one new context,
\* with Function null, the script's Realm and the realm's global environment
\* as LexicalEnvironment and VariableEnvironment; until it returns that
\* context sits right above the stack of the call; on return, with a normal
\* or a throw completion, the stack is the stack of the call.
PushedAndPopped ==
    LET ctx == evaluation.scriptContext
        entry == evaluation.entryStack
        stack == executionContextStack
    IN /\ evaluation.pc \in {"instantiate", "evaluate", "exit"} =>
            /\ Len(stack) >= Len(entry) + 1
            /\ SubSeq(stack, 1, Len(entry)) = entry
            /\ stack[Len(entry) + 1] = ctx
            /\ Cardinality({i \in DOMAIN stack : stack[i].id = ctx.id}) = 1
            /\ \A i \in DOMAIN entry : entry[i].id # ctx.id
            /\ ctx.Function = Vnull
            /\ ctx.Realm = evaluation.scriptRecord.Realm
            /\ ctx.LexicalEnvironment = GlobalEnv(evaluation.scriptRecord.Realm)
            /\ ctx.VariableEnvironment = GlobalEnv(evaluation.scriptRecord.Realm)
            /\ evaluation.pc = "exit" => Len(stack) = Len(entry) + 1
       /\ evaluation.pc = "returned" =>
            /\ stack = entry
            /\ ctx # NoContext
            /\ evaluation.result.Type \in {"normal", "throw"}
       /\ evaluation.pc # "assert"

\* C10, as stated: every ScriptEvaluation pushes exactly one new script
\* context on entry and pops that context on exit, so that on return, with
\* a normal or a throw completion, the stack is element for element the
\* stack of the call.
C10_EveryScriptEvaluation == PushedAndPopped

\* C10, amended: a ScriptEvaluation that the host does not replace through
\* hostDefinedOptions.boost.evaluateScript pushes exactly one new script
\* context on entry and pops that context on exit, so that on return, with
\* a normal or a throw completion, the stack is element for element the
\* stack of the call; with the host's function installed ScriptEvaluation
\* returns its result and pushes no context.
C10_ScriptEvaluationNotReplaced ==
    hostDefinedOptions.boost = absent => PushedAndPopped

\* A script called with the caller's context on the stack has thrown from
\* its body after a function call, and has returned.
C10_Witness ==
    /\ hostDefinedOptions.boost = absent
    /\ evaluation.pc = "returned"
    /\ evaluation.result.Type = "throw"
    /\ evaluation.scriptContext.id + 1 < evaluation.nextId
    /\ evaluation.entryStack # <<>>
    /\ executionContextStack = evaluation.entryStack

\* C11: in every step of ScriptEvaluation, an abrupt completion of
\* GlobalDeclarationInstantiation goes straight to the exit with that
\* completion as the result, so the body is evaluated only after a normal
\* one; the completion of the body is the result at the exit; and the exit
\* returns the result as it is, a throw completion as a throw completion,
\* except that a normal completion with no value becomes a normal
\* completion holding undefined.
C11_ErrorsAreCompletions ==
    [][LET before == evaluation
           after == evaluation'
       IN /\ (before.pc = "instantiate" /\ after.pc # "instantiate") =>
                \/ after.pc = "evaluate" /\ after.result.Type = "normal"
                \/ /\ after.pc = "exit"
                   /\ after.result = ThrowCompletion("SyntaxError")
          /\ (after.pc = "evaluate" /\ before.pc # "evaluate") =>
                before.pc = "instantiate"
          /\ (after.pc = "exit" /\ before.pc # "exit") =>
                \/ before.pc = "instantiate" /\ after.result.Type = "throw"
                \/ before.pc = "evaluate" /\ after.result \in Completions
          /\ (before.pc = "exit" /\ after.pc # "exit") =>
                /\ after.pc = "returned"
                /\ after.result =
                       IF before.result.Type = "normal"
                          /\ before.result.Value = absent
                       THEN NormalCompletion(Vundefined)
                       ELSE before.result
                /\ after.result # NormalCompletion(absent)]_vars

\* A ScriptEvaluation has returned the throw completion of
\* GlobalDeclarationInstantiation.
C11_Witness ==
    /\ hostDefinedOptions.boost = absent
    /\ evaluation.pc = "returned"
    /\ evaluation.result = ThrowCompletion("SyntaxError")

---------------------------------------------------------------------------
(* Specification SpecJobs: the agent's job queue and the loading of        *)
(* imported modules through the host (engine.mts).                         *)

MaxJobs == 3
MaxLoads == 1
MaxCallbacks == 2

\* A JobRecord.
JobRecord(queueName, job, callerRealm, callerScriptOrModule) ==
    [queueName |-> queueName, job |-> job, callerRealm |-> callerRealm,
     callerScriptOrModule |-> callerScriptOrModule]

\* A job function; id numbers the job functions in the order of their
\* creation, load is the call of HostLoadImportedModule the function
\* closes over.
JobFunction(id, kind, load) == [id |-> id, kind |-> kind, load |-> load]
NextJobId == Len(ran) + Len(jobQueue) + 1

\* Agent.runningExecutionContext
runningExecutionContext(stack) == stack[Len(stack)]

\* GetActiveScriptOrModule()
GetActiveScriptOrModule(stack) ==
    LET found == {i \in 1..Len(stack) : stack[i].ScriptOrModule # Vnull}
    IN IF found = {} THEN Vnull
       ELSE stack[CHOOSE i \in found : \A j \in found : j <= i].ScriptOrModule

\* Agent.queueJob that puts the record at the head of the queue.
queueJob_AtHead(queue, stack, queueName, job) ==
    <<JobRecord(queueName, job, runningExecutionContext(stack).Realm,
                GetActiveScriptOrModule(stack))>> \o queue

\* Agent.queueJob(queueName, job): the job queue after the call.
queueJob(queue, stack, queueName, job) ==
    Append(queue, JobRecord(queueName, job,
                            runningExecutionContext(stack).Realm,
                            GetActiveScriptOrModule(stack)))

\* EnsureCompletion(res): a value that is not a completion record becomes
\* a normal completion.
EnsureCompletion(res) ==
    IF res.Type \in {"normal", "throw", "return", "break", "continue"} THEN res
    ELSE NormalCompletion(res.Value)

\* What a host passes to the callback of loadImportedModule: a module
\* record or a throw completion.
HostResults ==
    {[Type |-> "value", Value |-> "module1"], ThrowCompletion("e")}

\* The contexts of the code that runs: a script and a built-in function of
\* another realm called by it.
ScriptContext == ExecutionContext(1, Vnull, "realm1", "script1", GlobalEnv("realm1"))
FunctionContext == ExecutionContext(2, "f", "realm2", Vnull, GlobalEnv("realm2"))

InitJobs ==
    /\ heap = [o \in {"o"} |-> OrdinaryObjectCreate(o, Vnull)]
    /\ last = Call("init", "o", StrKey("a"), NoDesc, UndefinedValue, Vtrue, Vtrue)
    /\ modules = NoModules
    /\ defined = {}
    /\ executionContextStack = <<>>
    /\ hostDefinedOptions \in
           {[boost |-> absent, loadImportedModule |-> absent],
            [boost |-> absent, loadImportedModule |-> "f"]}
    /\ evaluation = NoEvaluation
    /\ JobsIdle

\* The engine is entered: the script starts, or the running script calls
\* the function.
EnterCode ==
    /\ loading.pc = "idle"
    /\ Len(executionContextStack) < 2
    /\ executionContextStack' =
           Append(executionContextStack,
                  IF executionContextStack = <<>> THEN ScriptContext
                  ELSE FunctionContext)
    /\ UNCHANGED <<objectVars, hostDefinedOptions, evaluation, jobVars>>

\* The running code returns.
LeaveCode ==
    /\ loading.pc = "idle"
    /\ executionContextStack # <<>>
    /\ executionContextStack' =
           ExecutionContextStackPop(executionContextStack,
               runningExecutionContext(executionContextStack)).stack
    /\ UNCHANGED <<objectVars, hostDefinedOptions, evaluation, jobVars>>

\* HostEnqueuePromiseJob(job, _realm), called by running code.
HostEnqueuePromiseJob ==
    /\ loading.pc = "idle"
    /\ executionContextStack # <<>>
    /\ NextJobId <= MaxJobs
    /\ jobQueue' = queueJob(jobQueue, executionContextStack, "PromiseJobs",
                            JobFunction(NextJobId, "promise", 0))
    /\ UNCHANGED <<objectVars, agentVars, ran, loading>>

\* FinishLoadingImportedModule(referrer, specifier, result, payload) for
\* call load of HostLoadImportedModule: the list of the calls after it.
FinishLoadingImportedModule(finished, load, result) ==
    Append(finished, [load |-> load, result |-> result])

\* HostLoadImportedModule(referrer, specifier, hostDefined, payload), called
\* by running code: without the hook the whole call, with it up to the call
\* of the hook.
HostLoadImportedModule ==
    /\ loading.pc = "idle"
    /\ executionContextStack # <<>>
    /\ Len(loading.loads) < MaxLoads
    /\ LET load == Len(loading.loads) + 1
           failed == ThrowCompletion("CouldNotResolveModule")
       IN IF hostDefinedOptions.loadImportedModule # absent
          THEN loading' = [loading EXCEPT
                   !.pc = "hook", !.current = load,
                   !.loads = Append(@,
                       [executionContext |->
                            runningExecutionContext(executionContextStack),
                        result |-> NoResult, sync |-> TRUE])]
          ELSE loading' = [loading EXCEPT
                   !.loads = Append(@,
                       [executionContext |->
                            runningExecutionContext(executionContextStack),
                        result |-> NoResult, sync |-> FALSE]),
                   !.finished = FinishLoadingImportedModule(@, load, failed)]
    /\ UNCHANGED <<objectVars, agentVars, jobQueue, ran>>

\* The callback that does not pop the context it pushed.
Callback_NoPop(load, res) ==
    /\ Len(loading.invoked) < MaxCallbacks
    /\ load \in 1..Len(loading.loads)
    /\ hostDefinedOptions.loadImportedModule # absent
    /\ LET closure == loading.loads[load]
           result == EnsureCompletion(res)
           pushed == Append(executionContextStack, closure.executionContext)
       IN IF closure.sync
          THEN /\ loading.pc = "hook" /\ loading.current = load
               /\ closure.result = NoResult
               /\ loading' = [loading EXCEPT
                      !.loads[load].result = result,
                      !.invoked = Append(@, [load |-> load, result |-> result])]
               /\ UNCHANGED <<executionContextStack, jobQueue>>
          ELSE /\ loading.pc = "idle"
               /\ NextJobId <= MaxJobs
               /\ jobQueue' = queueJob(jobQueue, pushed,
                                  "FinishLoadingImportedModule",
                                  JobFunction(NextJobId, "finish", load))
               /\ executionContextStack' = pushed
               /\ loading' = [loading EXCEPT
                      !.pc = "runJobQueue",
                      !.loads[load].result = result,
                      !.invoked = Append(@, [load |-> load, result |-> result]),
                      !.entryStack = executionContextStack,
                      !.stackOk = TRUE]
    /\ UNCHANGED <<objectVars, hostDefinedOptions, evaluation, ran>>

\* The callback HostLoadImportedModule passes to the hook, invoked by the
\* host with res: by the hook during its call (at most once), or later,
\* when no code of the engine runs.  The later invocation pushes the
\* context of the call, queues the job and pops the context; runJobQueue
\* follows.
Callback(load, res) ==
    /\ Len(loading.invoked) < MaxCallbacks
    /\ load \in 1..Len(loading.loads)
    /\ hostDefinedOptions.loadImportedModule # absent
    /\ LET closure == loading.loads[load]
           result == EnsureCompletion(res)
           pushed == Append(executionContextStack, closure.executionContext)
           popped == ExecutionContextStackPop(pushed, closure.executionContext)
       IN IF closure.sync
          THEN /\ loading.pc = "hook" /\ loading.current = load
               /\ closure.result = NoResult
               /\ loading' = [loading EXCEPT
                      !.loads[load].result = result,
                      !.invoked = Append(@, [load |-> load, result |-> result])]
               /\ UNCHANGED <<executionContextStack, jobQueue>>
          ELSE /\ loading.pc = "idle"
               /\ NextJobId <= MaxJobs
               /\ jobQueue' = queueJob(jobQueue, pushed,
                                  "FinishLoadingImportedModule",
                                  JobFunction(NextJobId, "finish", load))
               /\ executionContextStack' = popped.stack
               /\ loading' = [loading EXCEPT
                      !.pc = "runJobQueue",
                      !.loads[load].result = result,
                      !.invoked = Append(@, [load |-> load, result |-> result]),
                      !.entryStack = executionContextStack,
                      !.stackOk = popped.ok]
    /\ UNCHANGED <<objectVars, hostDefinedOptions, evaluation, ran>>

\* The hook returns to HostLoadImportedModule, which finishes the loading
\* if the callback was invoked.
HostLoadImportedModuleReturn ==
    /\ loading.pc = "hook"
    /\ LET load == loading.current
           result == loading.loads[load].result
       IN loading' = [loading EXCEPT
              !.pc = "idle", !.current = 0,
              !.loads[load].sync = FALSE,
              !.finished = IF result # NoResult
                           THEN FinishLoadingImportedModule(@, load, result)
                           ELSE @]
    /\ UNCHANGED <<objectVars, agentVars, jobQueue, ran>>

\* runJobQueue() is called after code of the engine returned to the host.
runJobQueue ==
    /\ loading.pc = "idle"
    /\ executionContextStack = <<>>
    /\ jobQueue # <<>>
    /\ loading' = [loading EXCEPT !.pc = "runJobQueue",
                                  !.entryStack = executionContextStack]
    /\ UNCHANGED <<objectVars, agentVars, jobQueue, ran>>

\* One round of runJobQueue: the job at the head of the queue is removed
\* and run in a context of its caller's realm; the job of a callback
\* finishes the loading with the result its closure holds, and a job may
\* enqueue a promise job.
RunJob(enqueues) ==
    /\ loading.pc = "runJobQueue"
    /\ jobQueue # <<>>
    /\ enqueues => NextJobId <= MaxJobs
    /\ LET record == Head(jobQueue)
           newContext == ExecutionContext(0, Vnull, record.callerRealm,
                             record.callerScriptOrModule, Vnull)
       IN /\ ran' = Append(ran, record.job.id)
          /\ jobQueue' =
                 IF enqueues
                 THEN queueJob(Tail(jobQueue), <<newContext>>, "PromiseJobs",
                               JobFunction(NextJobId, "promise", 0))
                 ELSE Tail(jobQueue)
          /\ loading' =
                 IF record.job.kind = "finish"
                 THEN [loading EXCEPT !.finished =
                          FinishLoadingImportedModule(@, record.job.load,
                              loading.loads[record.job.load].result)]
                 ELSE loading
    /\ UNCHANGED <<objectVars, agentVars>>

\* runJobQueue returns when the queue is empty.
runJobQueueReturn ==
    /\ loading.pc = "runJobQueue"
    /\ jobQueue = <<>>
    /\ loading' = [loading EXCEPT !.pc = "idle"]
    /\ UNCHANGED <<objectVars, agentVars, jobQueue, ran>>

NextJobs ==
    \/ EnterCode
    \/ LeaveCode
    \/ HostEnqueuePromiseJob
    \/ HostLoadImportedModule
    \/ \E load \in 1..MaxLoads : \E res \in HostResults : Callback(load, res)
    \/ HostLoadImportedModuleReturn
    \/ runJobQueue
    \/ \E enqueues \in BOOLEAN : RunJob(enqueues)
    \/ runJobQueueReturn

SpecJobs == InitJobs /\ [][NextJobs]_vars

\* The jobs of the queue with the same queue name are in the order of
\* their enqueueing.
EnqueueOrder ==
    \A i, j \in 1..Len(jobQueue) :
        (i < j /\ jobQueue[i].queueName = jobQueue[j].queueName) =>
            jobQueue[i].job.id < jobQueue[j].job.id

\* A step enqueues at most one record, at the tail of the queue and behind
\* the records that were there, with the realm of the running context and
\* the active script or module of the caller, and it does not run the job
\* it enqueues; HostEnqueuePromiseJob does nothing else.
EnqueueStep ==
    LET new == {i \in 1..Len(jobQueue') :
                   \A j \in 1..Len(jobQueue) :
                       jobQueue[j].job.id # jobQueue'[i].job.id}
        record == jobQueue'[Len(jobQueue')]
        caller == IF record.queueName = "PromiseJobs"
                  THEN IF loading.pc = "idle" THEN executionContextStack
                       ELSE <<[Realm |-> Head(jobQueue).callerRealm,
                               ScriptOrModule |->
                                   Head(jobQueue).callerScriptOrModule]>>
                  ELSE <<loading.loads[record.job.load].executionContext>>
    IN /\ new \subseteq {Len(jobQueue')}
       /\ new # {} =>
             /\ LET ahead == SubSeq(jobQueue', 1, Len(jobQueue') - 1)
                IN \/ ahead = jobQueue
                   \/ jobQueue # <<>> /\ ahead = Tail(jobQueue)
             /\ \A k \in 1..Len(ran') : ran'[k] # record.job.id
             /\ record.callerRealm = caller[Len(caller)].Realm
             /\ record.callerScriptOrModule =
                    IF record.queueName = "PromiseJobs"
                    THEN GetActiveScriptOrModule(caller)
                    ELSE GetActiveScriptOrModule(
                             Append(executionContextStack, caller[1]))
             /\ loading.pc = "idle" =>
                    /\ jobQueue' = Append(jobQueue, record)
                    /\ ran' = ran
                    /\ loading'.finished = loading.finished
             /\ (loading.pc = "idle" /\ record.queueName = "PromiseJobs") =>
                    UNCHANGED <<executionContextStack, loading>>

\* C12: Agent.queueJob, and HostEnqueuePromiseJob under the queue name
\* 'PromiseJobs', only appends one job record with the caller's realm and
\* active script or module to the tail of the job queue and does not run
\* the job; of two jobs in the queue with the same queue name the one
\* enqueued first is ahead of the other.
C12_QueueJobAppends == []EnqueueOrder /\ [][EnqueueStep]_vars

\* Two promise jobs enqueued by callers of different realms wait in the
\* queue behind a job that has run.
C12_Witness ==
    /\ Len(jobQueue) = 2
    /\ jobQueue[1].queueName = "PromiseJobs"
    /\ jobQueue[2].queueName = "PromiseJobs"
    /\ jobQueue[1].callerRealm # jobQueue[2].callerRealm
    /\ jobQueue[2].callerScriptOrModule = "script1"
    /\ ran # <<>>

\* Between the steps of HostLoadImportedModule and of runJobQueue: every
\* invocation of a callback has been followed by one call of
\* FinishLoadingImportedModule with its result, in the order of the
\* invocations; without the hook every call of HostLoadImportedModule
\* has finished once, with a throw completion; and the stack that a later
\* invocation of the callback found is the stack it left.
LoadingFinished ==
    /\ loading.stackOk
    /\ loading.pc = "runJobQueue" =>
           executionContextStack = loading.entryStack
    /\ (loading.pc = "idle" /\ hostDefinedOptions.loadImportedModule # absent)
           => loading.finished = loading.invoked
    /\ hostDefinedOptions.loadImportedModule = absent =>
           /\ loading.invoked = <<>>
           /\ loading.finished =
                  [load \in 1..Len(loading.loads) |->
                      [load |-> load,
                       result |-> ThrowCompletion("CouldNotResolveModule")]]

\* A callback invoked by the hook during its call queues no job and
\* finishes nothing before the hook returns, when HostLoadImportedModule
\* finishes with its result; a callback invoked later finishes nothing
\* itself and queues one 'FinishLoadingImportedModule' job of the realm of
\* the captured context, which runJobQueue runs.
LoadingStep ==
    LET invokes == Len(loading'.invoked) > Len(loading.invoked)
        finishes == Len(loading'.finished) > Len(loading.finished)
    IN /\ loading.pc = "hook" =>
              /\ UNCHANGED <<jobQueue, ran, executionContextStack>>
              /\ invokes => ~finishes
              /\ finishes =>
                     /\ loading'.pc = "idle"
                     /\ loading'.finished =
                            Append(loading.finished,
                                   loading.invoked[Len(loading.invoked)])
       /\ (loading.pc = "idle" /\ invokes) =>
              /\ ~finishes /\ ran' = ran
              /\ loading'.pc = "runJobQueue"
              /\ Len(jobQueue') = Len(jobQueue) + 1
              /\ LET record == jobQueue'[Len(jobQueue')]
                     call == loading'.invoked[Len(loading'.invoked)]
                 IN /\ record.queueName = "FinishLoadingImportedModule"
                    /\ record.job.load = call.load
                    /\ record.callerRealm =
                           loading.loads[call.load].executionContext.Realm
       /\ (loading.pc = "runJobQueue" /\ finishes) =>
              /\ Head(jobQueue).queueName = "FinishLoadingImportedModule"
              /\ Len(loading'.finished) = Len(loading.finished) + 1
       /\ (loading.pc = "runJobQueue" /\ loading'.pc = "idle") =>
              jobQueue = <<>>

---------------------------------------------------------------------------
(* Specification SpecProxy: revocable proxies and their revokers           *)
(* (intrinsics/Proxy.mts).                                                 *)

MaxProxies == 3
MaxCalls == 2

ProxyIds == <<"p1", "p2", "p3", "p4">>
RevokerIds == <<"r1", "r2", "r3", "r4">>

\* ProxyCreate(target, handler): a TypeError unless both are objects.
ProxyCreate(id, target, handler, objects) ==
    IF target \notin objects \/ handler \notin objects
    THEN [Type |-> "throw", Value |-> "TypeError"]
    ELSE [Type |-> "normal",
          Value |-> [id |-> id, kind |-> "proxy", ProxyTarget |-> target,
                     ProxyHandler |-> handler]]

\* CreateBuiltinFunction(steps, 0, '', ['RevocableProxy']); calls counts
\* the calls of the function.
CreateBuiltinFunction(id) ==
    [id |-> id, kind |-> "function", RevocableProxy |-> Vundefined, calls |-> 0]

\* The proxies and the revokers of the heap.
Proxies == {o \in DOMAIN heap : heap[o].kind = "proxy"}
Revokers == {o \in DOMAIN heap : heap[o].kind = "function"}

InitProxy ==
    /\ heap = [o \in {"o1", "o2"} |-> OrdinaryObjectCreate(o, Vnull)]
    /\ last = Call("init", "o1", StrKey("a"), NoDesc, UndefinedValue, Vtrue, Vtrue)
    /\ modules = NoModules
    /\ defined = {}
    /\ AgentIdle

\* Proxy.revocable(target, handler)
Proxy_revocable(target, handler) ==
    /\ Cardinality(Proxies) < MaxProxies
    /\ LET n == Cardinality(Proxies) + 1
           p == ProxyCreate(ProxyIds[n], target, handler, DOMAIN heap)
           revoker == [CreateBuiltinFunction(RevokerIds[n]) EXCEPT
                          !.RevocableProxy = ProxyIds[n]]
       IN IF p.Type = "throw"
          THEN /\ last' = Call("Proxy.revocable", target, StrKey("a"), NoDesc,
                               UndefinedValue, Vtrue, "throw")
               /\ UNCHANGED heap
          ELSE /\ heap' = (ProxyIds[n] :> p.Value) @@ (RevokerIds[n] :> revoker)
                              @@ heap
               /\ last' = Call("Proxy.revocable", target, StrKey("a"), NoDesc,
                               UndefinedValue, Vtrue, RevokerIds[n])
    /\ UNCHANGED <<modules, defined, agentVars, jobVars>>

\* The revocation function that leaves the handler of the proxy.
ProxyRevocationFunctions_KeepsHandler(h, func) ==
    LET p == h[func].RevocableProxy
    IN IF p = Vnull THEN [ret |-> Vundefined, heap |-> h]
       ELSE [ret |-> Vundefined,
             heap |-> [h EXCEPT ![func].RevocableProxy = Vnull,
                                ![p].ProxyTarget = Vnull]]

\* The steps of a proxy revocation function, func the active function
\* object F: the result and the heap after the call.
ProxyRevocationFunctions(h, func) ==
    LET p == h[func].RevocableProxy
    IN IF p = Vnull THEN [ret |-> Vundefined, heap |-> h]
       ELSE [ret |-> Vundefined,
             heap |-> [h EXCEPT ![func].RevocableProxy = Vnull,
                                ![p].ProxyTarget = Vnull,
                                ![p].ProxyHandler = Vnull]]

\* A call of the revoker func.
Revoke(func) ==
    /\ func \in Revokers
    /\ heap[func].calls < MaxCalls
    /\ \E r \in {ProxyRevocationFunctions(heap, func)} :
          /\ heap' = [r.heap EXCEPT ![func].calls = @ + 1]
          /\ last' = Call("revoke", func, StrKey("a"), NoDesc, UndefinedValue,
                          Vtrue, r.ret)
    /\ UNCHANGED <<modules, defined, agentVars, jobVars>>

NextProxy ==
    \/ \E target, handler \in {"o1", "o2", "p1", "r1", Vundefined} :
           Proxy_revocable(target, handler)
    \/ \E func \in Range(RevokerIds) : Revoke(func)

SpecProxy == InitProxy /\ [][NextProxy]_vars

\* The proxy that Proxy.revocable created together with the revoker func.
ProxyOf(func) == ProxyIds[CHOOSE n \in DOMAIN RevokerIds : RevokerIds[n] = func]

\* Before the first call of a revoker its proxy has a target and a handler;
\* after it the proxy has neither and the revoker has no proxy.
RevokedOnce ==
    \A func \in Revokers :
        LET p == heap[ProxyOf(func)]
        IN IF heap[func].calls = 0
           THEN /\ p.ProxyTarget # Vnull /\ p.ProxyHandler # Vnull
                /\ heap[func].RevocableProxy = p.id
           ELSE /\ p.ProxyTarget = Vnull /\ p.ProxyHandler = Vnull
                /\ heap[func].RevocableProxy = Vnull

\* A slot that is null stays null; every call of a revoker returns
\* undefined, and a call after the first changes no slot of any object.
RevokeStep ==
    /\ \A p \in Proxies :
          /\ heap[p].ProxyTarget = Vnull => heap'[p].ProxyTarget = Vnull
          /\ heap[p].ProxyHandler = Vnull => heap'[p].ProxyHandler = Vnull
    /\ \A func \in Revokers :
          /\ heap[func].RevocableProxy = Vnull => heap'[func].RevocableProxy = Vnull
          /\ heap'[func].calls > heap[func].calls =>
                /\ last'.op = "revoke" /\ last'.ret = Vundefined
                /\ heap[func].calls > 0 =>
                       /\ DOMAIN heap' = DOMAIN heap
                       /\ \A o \in DOMAIN heap :
                              o # func => heap'[o] = heap[o]
                       /\ heap'[func] = [heap[func] EXCEPT !.calls = @ + 1]

\* C14: a proxy of Proxy.revocable has a target and a handler until its
\* revoker is first called; from then on ProxyTarget, ProxyHandler and the
\* revoker's RevocableProxy are null for ever, and every further call of
\* the revoker returns undefined and changes nothing.
C14_Revocation == []RevokedOnce /\ [][RevokeStep]_vars

\* A revoker has been called twice, and a proxy whose target is the
\* revoked proxy still has its target and handler.
C14_Witness ==
    /\ "r1" \in Revokers /\ heap["r1"].calls = 2
    /\ heap["p1"].ProxyTarget = Vnull
    /\ last.op = "revoke" /\ last.O = "r1"
    /\ "p2" \in Proxies /\ heap["p2"].ProxyTarget = "p1"
    /\ heap["r2"].RevocableProxy = "p2"

---------------------------------------------------------------------------
(* Specification SpecPrivate: the private elements of one object           *)
(* (abstract-ops/private-names.mts).                                       *)

MaxPrivateElements == 3

\* new PrivateName(Description): id stands for the identity of the object.
PrivateName(id, Description) == [id |-> id, Description |-> Description]
PrivateNames ==
    {PrivateName(1, "#x"), PrivateName(2, "#x"), PrivateName(3, "#y")}

\* new PrivateElementRecord({ Key, Kind, Value, Get, Set })
PrivateElementRecord(Key, kind, v, g, s) ==
    [Key |-> Key, Kind |-> kind, Value |-> v, Get |-> g, Set |-> s]
\* The result undefined of PrivateElementFind.
NoEntry == PrivateElementRecord(PrivateName(0, ""), "none", absent, absent, absent)

\* The index of the first element of PrivateElements that P selects when
\* names are compared by their Description, 0 without one.
PrivateElementIndex_ByDescription(P, PrivateElements) ==
    LET found == {i \in 1..Len(PrivateElements) :
                     PrivateElements[i].Key.Description = P.Description}
    IN IF found = {} THEN 0 ELSE CHOOSE i \in found : \A j \in found : i <= j

\* The index of the element O.PrivateElements.find((e) => e.Key === P)
\* returns, 0 without one.
PrivateElementIndex(P, PrivateElements) ==
    LET found == {i \in 1..Len(PrivateElements) : PrivateElements[i].Key = P}
    IN IF found = {} THEN 0 ELSE CHOOSE i \in found : \A j \in found : i <= j

\* PrivateElementFind(P, O)
PrivateElementFind(P, O) ==
    With(PrivateElementIndex(P, O.PrivateElements), LAMBDA i :
        IF i = 0 THEN NoEntry ELSE O.PrivateElements[i])

\* PrivateGet(P, O): the completion; the call of a getter is a call of
\* user code, which returns a value here.
PrivateGet(P, O) ==
    With(PrivateElementFind(P, O), LAMBDA entry :
        IF entry = NoEntry THEN ThrowCompletion("TypeError")
        ELSE IF entry.Kind \in {"field", "method"}
        THEN NormalCompletion(entry.Value)
        ELSE IF entry.Get = Vundefined THEN ThrowCompletion("TypeError")
        ELSE NormalCompletion("got"))

\* PrivateSet(P, O, value): the completion and the object after the call;
\* the call of a setter is a call of user code, which leaves O alone here.
PrivateSet(P, O, value) ==
    With(PrivateElementIndex(P, O.PrivateElements), LAMBDA i :
        IF i = 0 THEN [ret |-> ThrowCompletion("TypeError"), O |-> O]
        ELSE IF O.PrivateElements[i].Kind = "field"
        THEN [ret |-> NormalCompletion(Vundefined),
              O |-> [O EXCEPT !.PrivateElements[i].Value = value]]
        ELSE IF O.PrivateElements[i].Kind = "method"
        THEN [ret |-> ThrowCompletion("TypeError"), O |-> O]
        ELSE IF O.PrivateElements[i].Set = Vundefined
        THEN [ret |-> ThrowCompletion("TypeError"), O |-> O]
        ELSE [ret |-> NormalCompletion(Vundefined), O |-> O])

\* An add that appends without looking for the name.
PrivateElementAdd_Always(element, O) ==
    [ret |-> NormalCompletion(Vundefined),
     O |-> [O EXCEPT !.PrivateElements = Append(@, element)]]

\* PrivateMethodOrAccessorAdd(method, O) and, with a field,
\* PrivateFieldAdd(P, O, value)
PrivateElementAdd(element, O) ==
    IF PrivateElementFind(element.Key, O) # NoEntry
    THEN [ret |-> ThrowCompletion("TypeError"), O |-> O]
    ELSE [ret |-> NormalCompletion(Vundefined),
          O |-> [O EXCEPT !.PrivateElements = Append(@, element)]]

\* The record of a call of a private-name operation.
PrivateCall(op, P, value, ret) ==
    [op |-> op, P |-> P, value |-> value, ret |-> ret]

InitPrivate ==
    /\ heap = [o \in {"o"} |->
                  [PrivateElements |-> <<>>] @@ OrdinaryObjectCreate(o, Vnull)]
    /\ last = PrivateCall("init", PrivateName(0, ""), absent,
                          NormalCompletion(Vundefined))
    /\ modules = NoModules
    /\ defined = {}
    /\ AgentIdle

\* The elements a class definition adds to its instances.
PrivateElementsOf(P) ==
    {PrivateElementRecord(P, "field", v, absent, absent) : v \in {"v1", "v2"}}
    \cup {PrivateElementRecord(P, "method", "f", absent, absent)}
    \cup {PrivateElementRecord(P, "accessor", absent, g, s) :
             g \in {"f", Vundefined}, s \in {"f", Vundefined}}

DoPrivateElementAdd(element) ==
    /\ Len(heap["o"].PrivateElements) < MaxPrivateElements
    /\ \E r \in {PrivateElementAdd(element, heap["o"])} :
          /\ heap' = [heap EXCEPT !["o"] = r.O]
          /\ last' = PrivateCall("PrivateElementAdd", element.Key,
                                 element.Value, r.ret)
    /\ UNCHANGED <<modules, defined, agentVars, jobVars>>

DoPrivateGet(P) ==
    /\ last' = PrivateCall("PrivateGet", P, absent, PrivateGet(P, heap["o"]))
    /\ UNCHANGED <<heap, modules, defined, agentVars, jobVars>>

DoPrivateSet(P, value) ==
    /\ \E r \in {PrivateSet(P, heap["o"], value)} :
          /\ heap' = [heap EXCEPT !["o"] = r.O]
          /\ last' = PrivateCall("PrivateSet", P, value, r.ret)
    /\ UNCHANGED <<modules, defined, agentVars, jobVars>>

NextPrivate ==
    \/ \E P \in PrivateNames : \E element \in PrivateElementsOf(P) :
           DoPrivateElementAdd(element)
    \/ \E P \in PrivateNames : DoPrivateGet(P)
    \/ \E P \in PrivateNames : \E value \in {"v1", "v2"} : DoPrivateSet(P, value)

SpecPrivate == InitPrivate /\ [][NextPrivate]_vars

\* PrivateElementFind returns for no name an element whose Key is another
\* PrivateName object.
FindsTheSameName ==
    \A P \in PrivateNames :
        LET entry == PrivateElementFind(P, heap["o"])
        IN entry # NoEntry =>
               /\ entry.Key.id = P.id
               /\ \E i \in 1..Len(heap["o"].PrivateElements) :
                      heap["o"].PrivateElements[i] = entry

\* A PrivateGet or PrivateSet through a name that is the Key of no element
\* of the object returns a TypeError throw completion and leaves the
\* object as it was.
UnknownNameStep ==
    (/\ last'.op \in {"PrivateGet", "PrivateSet"}
     /\ \A i \in 1..Len(heap["o"].PrivateElements) :
            heap["o"].PrivateElements[i].Key.id # last'.P.id)
        => /\ last'.ret = ThrowCompletion("TypeError")
           /\ heap' = heap

\* C15: PrivateElementFind(P, O) returns an element of O.PrivateElements
\* only if its Key is the very same PrivateName object as P, so PrivateGet
\* and PrivateSet through another PrivateName, also one with an equal
\* Description, return a TypeError throw completion and leave
\* O.PrivateElements unchanged.
C15_PrivateNameIdentity == []FindsTheSameName /\ [][UnknownNameStep]_vars

\* A PrivateSet through a name has thrown although the object has a field
\* whose Key is another name with the same Description.
C15_Witness ==
    /\ last.op = "PrivateSet"
    /\ last.ret = ThrowCompletion("TypeError")
    /\ last.P = PrivateName(2, "#x")
    /\ Len(heap["o"].PrivateElements) = 1
    /\ heap["o"].PrivateElements[1].Key = PrivateName(1, "#x")
    /\ heap["o"].PrivateElements[1].Kind = "field"

---------------------------------------------------------------------------
(* Specification SpecArguments: the mapped arguments object of a call      *)
(* f(v1, v2) of function f(a, b), and assignments to the parameter a.      *)

\* The properties of the ParameterMap: one accessor for each formal
\* parameter name, from the last index down, at its last index when that
\* is below len.
RECURSIVE MapProperties(_, _, _, _)
MapProperties(parameterNames, len, index, mappedNames) ==
    IF index < 0 THEN <<>>
    ELSE LET name == parameterNames[index + 1]
             rest == MapProperties(parameterNames, len, index - 1,
                                   mappedNames \cup {name})
         IN IF name \notin mappedNames /\ index < len
            THEN <<[key |-> IdxKey(Num(0, index)),
                    desc |-> Descriptor(absent, absent, MakeArgGetter(name),
                                        MakeArgSetter(name), Vfalse, Vtrue)]>>
                     \o rest
            ELSE rest

\* CreateMappedArgumentsObject(func, formals, argumentsList, env); the
\* bindings of env hold the arguments.
CreateMappedArgumentsObject(id, func, parameterNames, argumentsList, env) ==
    [id |-> id, kind |-> "arguments",
     properties |->
         [i \in 1..Len(argumentsList) |->
             [key |-> IdxKey(Num(0, i - 1)),
              desc |-> Descriptor(argumentsList[i], Vtrue, absent, absent,
                                  Vtrue, Vtrue)]]
         \o <<[key |-> StrKey("length"),
               desc |-> Descriptor(F(Num(0, Len(argumentsList))), Vtrue,
                                   absent, absent, Vfalse, Vtrue)],
              [key |-> SymKey("iterator"),
               desc |-> Descriptor("Array.prototype.values", Vtrue, absent,
                                   absent, Vfalse, Vtrue)],
              [key |-> StrKey("callee"),
               desc |-> Descriptor(func, Vtrue, absent, absent, Vfalse,
                                   Vtrue)]>>,
     Prototype |-> "ObjectPrototype", Extensible |-> Vtrue,
     ParameterMap |->
         [OrdinaryObjectCreate("map", Vnull) EXCEPT
             !.properties = MapProperties(parameterNames, Len(argumentsList),
                                          Len(parameterNames) - 1, {})],
     env |-> env]

\* The record of a call of an internal method of the arguments object or
\* of an assignment to a parameter.
ArgumentsCall(op, P, Desc, V, ret, value) ==
    [op |-> op, P |-> P, Desc |-> Desc, V |-> V, ret |-> ret, value |-> value]

ArgumentsKeys == {IdxKey(Num(0, 0))}
\* The descriptors of the calls: data, accessor and generic ones.
ArgumentsDescs ==
    {d \in [Value : {absent, "v1", "v2"}, Writable : Bool3,
            Get : {absent, "f"}, Set : {absent},
            Enumerable : {absent}, Configurable : Bool3] :
        ~(IsDataDescriptor(d) /\ IsAccessorDescriptor(d))}

InitArguments ==
    /\ heap = [o \in {"args", "ObjectPrototype"} |->
                  IF o = "args"
                  THEN CreateMappedArgumentsObject("args", "f", <<"a", "b">>,
                           <<"v1", "v2">>, [a |-> "v1", b |-> "v2"])
                  ELSE OrdinaryObjectCreate(o, Vnull)]
    /\ last = ArgumentsCall("init", IdxKey(Num(0, 0)), NoDesc, absent, absent,
                            absent)
    /\ modules = NoModules
    /\ defined = {}
    /\ AgentIdle

DoArgumentsGetOwnProperty(P) ==
    /\ \E desc \in {ArgumentsGetOwnProperty(heap["args"], P)} :
          last' = ArgumentsCall("GetOwnProperty", P, desc, absent, absent,
                                IF desc = UndefinedValue THEN absent
                                ELSE desc.Value)
    /\ UNCHANGED <<heap, modules, defined, agentVars, jobVars>>

DoArgumentsDefineOwnProperty(P, Desc) ==
    /\ \E r \in {ArgumentsDefineOwnProperty(heap["args"], P, Desc)} :
          /\ heap' = [heap EXCEPT !["args"] = r.O]
          /\ last' = ArgumentsCall("DefineOwnProperty", P, Desc, absent,
                                   r.ret, absent)
    /\ UNCHANGED <<modules, defined, agentVars, jobVars>>

DoArgumentsGet(P) ==
    /\ \E r \in {ArgumentsGet(heap["args"], P)} :
          last' = ArgumentsCall("Get", P, NoDesc, absent, r[1], r[2])
    /\ UNCHANGED <<heap, modules, defined, agentVars, jobVars>>

DoArgumentsSet(P, V) ==
    /\ \E r \in {ArgumentsSet(heap["args"], P, V)} :
          /\ heap' = [heap EXCEPT !["args"] = r.O]
          /\ last' = ArgumentsCall("Set", P, NoDesc, V, r.ret, absent)
    /\ UNCHANGED <<modules, defined, agentVars, jobVars>>

DoArgumentsDelete(P) ==
    /\ \E r \in {ArgumentsDelete(heap["args"], P)} :
          /\ heap' = [heap EXCEPT !["args"] = r.O]
          /\ last' = ArgumentsCall("Delete", P, NoDesc, absent, r.ret, absent)
    /\ UNCHANGED <<modules, defined, agentVars, jobVars>>

\* An assignment to the parameter: env.SetMutableBinding(name, V, false).
SetMutableBinding(name, V) ==
    /\ heap' = [heap EXCEPT !["args"].env[name] = V]
    /\ last' = ArgumentsCall("SetMutableBinding", IdxKey(Num(0, 0)), NoDesc, V,
                             absent, absent)
    /\ UNCHANGED <<modules, defined, agentVars, jobVars>>

NextArguments ==
    \/ \E P \in ArgumentsKeys : DoArgumentsGetOwnProperty(P)
    \/ \E P \in ArgumentsKeys : \E Desc \in ArgumentsDescs :
           DoArgumentsDefineOwnProperty(P, Desc)
    \/ \E P \in ArgumentsKeys : DoArgumentsGet(P)
    \/ \E P \in ArgumentsKeys : \E V \in {"v1", "v2"} : DoArgumentsSet(P, V)
    \/ \E P \in ArgumentsKeys : DoArgumentsDelete(P)
    \/ \E V \in {"v1", "v2"} : SetMutableBinding("a", V)

SpecArguments == InitArguments /\ [][NextArguments]_vars

\* The formal parameter of index 0 and its binding.
Index0 == IdxKey(Num(0, 0))
BindingOfA(h) == h["args"].env["a"]

\* While index 0 is mapped, [[Get]] and [[GetOwnProperty]] of it give the
\* value of the binding of a.
ReadsTheBinding ==
    isMapped(heap["args"], Index0) =>
        /\ ArgumentsGet(heap["args"], Index0) = <<"normal", BindingOfA(heap)>>
        /\ ArgumentsGetOwnProperty(heap["args"], Index0).Value = BindingOfA(heap)

\* A call of [[Get]] or [[GetOwnProperty]] of the mapped index 0 returns the
\* value the binding of a has at the call, and a call of [[Set]] of it
\* leaves its value in the binding.
MappedStep ==
    isMapped(heap["args"], Index0) =>
        /\ last'.op \in {"Get", "GetOwnProperty"} =>
               last'.value = BindingOfA(heap)
        /\ last'.op = "Set" => BindingOfA(heap') = last'.V

\* C16: while index i of a mapped arguments object is mapped, [[Get]] and
\* [[GetOwnProperty]] of i return the current value of the binding of the
\* formal parameter, and [[Set]] of i with the object as receiver writes
\* the value to the binding; after any interleaving of assignments to the
\* parameter and to arguments[i] both read the same value.
C16_MappedReadsAndWrites == []ReadsTheBinding /\ [][MappedStep]_vars

\* [[Get]] of the mapped index 0 has returned the value assigned to the
\* parameter, while the property of the object still stores the argument.
C16_Witness ==
    /\ isMapped(heap["args"], Index0)
    /\ last.op = "Get" /\ last.value = "v2"
    /\ BindingOfA(heap) = "v2"
    /\ PropsGet(heap["args"].properties, Index0).Value = "v1"

\* The value stored in the property of index 0, absent for an accessor.
StoredValue(h) == PropsGet(h["args"].properties, Index0).Value

\* The outcome of a call of [[DefineOwnProperty]] on the mapped index 0.
DefineMappedStep ==
    (last'.op = "DefineOwnProperty" /\ isMapped(heap["args"], Index0)) =>
        LET Desc == last'.Desc
            written == IF Desc.Value # absent
                       THEN BindingOfA(heap') = Desc.Value
                       ELSE BindingOfA(heap') = BindingOfA(heap)
        IN IF last'.ret = Vfalse
           THEN heap' = heap
           ELSE /\ last'.ret = Vtrue
                /\ IF IsAccessorDescriptor(Desc)
                   THEN /\ ~isMapped(heap'["args"], Index0)
                        /\ BindingOfA(heap') = BindingOfA(heap)
                   ELSE IF Desc.Writable = Vfalse
                   THEN /\ ~isMapped(heap'["args"], Index0)
                        /\ written
                        /\ StoredValue(heap') = BindingOfA(heap')
                   ELSE /\ isMapped(heap'["args"], Index0)
                        /\ written

\* C17: [[DefineOwnProperty]] on a mapped index: rejected, it returns false
\* and changes nothing; succeeding with an accessor descriptor it removes
\* the mapping; succeeding with Writable false it removes the mapping after
\* writing a supplied Value to the binding, and without a Value the
\* property keeps the value of the binding; succeeding otherwise it keeps
\* the mapping and writes a supplied Value through to the binding.
C17_DefineOnMappedIndex == [][DefineMappedStep]_vars

\* The index was made non-writable without a Value after an assignment to
\* the parameter: it is no longer mapped and stores the assigned value.
C17_Witness ==
    /\ last.op = "DefineOwnProperty" /\ last.ret = Vtrue
    /\ last.Desc.Writable = Vfalse /\ last.Desc.Value = absent
    /\ ~isMapped(heap["args"], Index0)
    /\ StoredValue(heap) = "v2"
    /\ BindingOfA(heap) = "v2"

---------------------------------------------------------------------------
(* The namespace object of a module with local, indirect and namespace     *)
(* exports (abstract-ops/module-namespace-exotic-objects.mts)              *)

MaxExports == 3
ExportNames == {"B", "a", "ab", "ns"}
ExportLists == UNION {[1..n -> ExportNames] : n \in 0..MaxExports}
NamespaceObjects == {"ns", "nsOther"}
NamespaceKeys ==
    {StrKey(n) : n \in ExportNames \cup {"x"}}
    \cup {SymKey("toStringTag")}
NamespaceDescs ==
    {NoDesc,
     Descriptor("v1", Vtrue, absent, absent, Vtrue, Vfalse),
     Descriptor(absent, absent, Vundefined, absent, absent, absent)}

\* A module record with the list its GetExportedNames() returns, the table
\* of its indirect exports and its [[Namespace]].
SourceTextModuleRecord(names, ExportedNames, IndirectExports, Namespace) ==
    [Environment |-> Vundefined,
     bindings |-> [n \in names |-> "uninitialized"],
     ExportedNames |-> ExportedNames, IndirectExports |-> IndirectExports,
     Namespace |-> Namespace]

NamespaceCall(op, o, P, ret, value, keys) ==
    [op |-> op, O |-> o, P |-> P, ret |-> ret, value |-> value, keys |-> keys]

\* Module m is
\*   export let B; export {x as a, x as ab} from "other";
\*   export * as ns from "other";
\* restricted to the names of the list exports; module other is export let x.
InitNamespace ==
    \E exports \in ExportLists :
       /\ modules = [m \in {"m", "other"} |->
                       IF m = "m"
                       THEN SourceTextModuleRecord({"B"}, exports,
                                [a |-> ResolvedBindingRecord("other", "x"),
                                 ab |-> ResolvedBindingRecord("other", "x"),
                                 ns |-> ResolvedBindingRecord("other", "namespace")],
                                "ns")
                       ELSE SourceTextModuleRecord({"x"}, <<"x">>, <<>>, "nsOther")]
       /\ heap = [o \in NamespaceObjects |->
                    IF o = "ns" THEN ModuleNamespaceCreate("ns", "m", exports)
                    ELSE ModuleNamespaceCreate("nsOther", "other", <<"x">>)]
       /\ last = NamespaceCall("init", "ns", StrKey("x"), Vtrue,
                               <<"normal", Vundefined>>, <<>>)
       /\ defined = {}
       /\ AgentIdle

DoNamespaceOwnPropertyKeys(o) ==
    /\ last' = NamespaceCall("OwnPropertyKeys", o, StrKey("x"), Vtrue,
                             <<"normal", Vundefined>>, OwnPropertyKeys(heap[o]))
    /\ UNCHANGED <<heap, modules, defined, agentVars, jobVars>>

DoNamespaceGet(o, P) ==
    /\ last' = NamespaceCall("Get", o, P, Vtrue, Get(heap[o], P), <<>>)
    /\ UNCHANGED <<heap, modules, defined, agentVars, jobVars>>

DoNamespaceSet(o, P, V) ==
    \E r \in {ModuleNamespaceSet(heap[o], P, V, o)} :
       /\ heap' = [heap EXCEPT ![o] = r.O]
       /\ last' = NamespaceCall("Set", o, P, r.ret, <<"normal", V>>, <<>>)
       /\ UNCHANGED <<modules, defined, agentVars, jobVars>>

DoNamespaceDelete(o, P) ==
    \E r \in {Delete(heap[o], P)} :
       /\ heap' = [heap EXCEPT ![o] = r.O]
       /\ last' = NamespaceCall("Delete", o, P, r.ret,
                                <<"normal", Vundefined>>, <<>>)
       /\ UNCHANGED <<modules, defined, agentVars, jobVars>>

DoNamespaceDefineOwnProperty(o, P, Desc) ==
    \E r \in {DefineOwnProperty(heap[o], P, Desc)} :
       /\ heap' = [heap EXCEPT ![o] = r.O]
       /\ last' = NamespaceCall("DefineOwnProperty", o, P, r.ret,
                                <<"normal", Vundefined>>, <<>>)
       /\ UNCHANGED <<modules, defined, agentVars, jobVars>>

DoNamespacePreventExtensions(o) ==
    \E r \in {PreventExtensions(heap[o])} :
       /\ heap' = [heap EXCEPT ![o] = r.O]
       /\ last' = NamespaceCall("PreventExtensions", o, StrKey("x"), r.ret,
                                <<"normal", Vundefined>>, <<>>)
       /\ UNCHANGED <<modules, defined, agentVars, jobVars>>

DoNamespaceIsExtensible(o) ==
    /\ last' = NamespaceCall("IsExtensible", o, StrKey("x"),
                             IsExtensible(heap[o]), <<"normal", Vundefined>>, <<>>)
    /\ UNCHANGED <<heap, modules, defined, agentVars, jobVars>>

NextNamespace ==
    \/ \E o \in {"ns"} : DoNamespaceOwnPropertyKeys(o)
    \/ \E o \in {"ns"}, P \in NamespaceKeys : DoNamespaceGet(o, P)
    \/ \E o \in {"ns"}, P \in NamespaceKeys, V \in {"v1"} :
          DoNamespaceSet(o, P, V)
    \/ \E o \in {"ns"}, P \in NamespaceKeys : DoNamespaceDelete(o, P)
    \/ \E o \in {"ns"}, P \in NamespaceKeys, Desc \in NamespaceDescs :
          DoNamespaceDefineOwnProperty(o, P, Desc)
    \/ \E o \in {"ns"} : DoNamespacePreventExtensions(o)
    \/ \E o \in {"ns"} : DoNamespaceIsExtensible(o)
    \/ \E m \in {"m", "other"} : InitializeEnvironment(m)
    \/ \E m \in {"m", "other"}, v \in {"v1"} :
          \E N \in DOMAIN modules[m].bindings : InitializeBinding(m, N, v)

SpecNamespace == InitNamespace /\ [][NextNamespace]_vars

\* The rank of the export names in the order of their code units:
\* "B" < "a" < "ab" < "ns" < "x".
CodeUnitRank == [B |-> 1, a |-> 2, ab |-> 3, ns |-> 4, x |-> 5]

GivenExports(o) == Range(modules[heap[o].Module].ExportedNames)

\* C18: the keys [[OwnPropertyKeys]] of a namespace object returns are its
\* exported names as String keys in strictly ascending code-unit order
\* (so each once), whatever the order and the repetitions of the list
\* given to ModuleNamespaceCreate, followed by the Symbol keys of the
\* object.
C18_KeysSorted ==
    last.op = "OwnPropertyKeys" =>
        LET keys == last.keys
            strings == SelectSeq(keys, LAMBDA k : k.type = "String")
            symbols == SelectSeq(keys, LAMBDA k : k.type = "Symbol")
        IN /\ keys = strings \o symbols
           /\ \A i, j \in DOMAIN strings :
                  i < j => CodeUnitRank[strings[i].name] < CodeUnitRank[strings[j].name]
           /\ {strings[i].name : i \in DOMAIN strings} = GivenExports(last.O)
           /\ symbols = <<SymKey("toStringTag")>>

C18_Witness ==
    /\ last.op = "OwnPropertyKeys"
    /\ last.O = "ns"
    /\ modules["m"].ExportedNames = <<"ab", "B", "ab">>
    /\ last.keys = <<StrKey("B"), StrKey("ab"), SymKey("toStringTag")>>

\* C19: on a namespace object [[Set]] returns false, [[Delete]] of a String
\* key returns false for an exported name and true for any other name,
\* [[IsExtensible]] returns false, [[DefineOwnProperty]] of a String key
\* that is not exported returns false, and no call of [[Set]], [[Delete]],
\* [[DefineOwnProperty]] or [[PreventExtensions]] changes the exports, the
\* null prototype or a stored property of any object.
FrozenResult ==
    LET exported == last.P.name \in GivenExports(last.O)
    IN /\ last.op = "Set" => last.ret = Vfalse
       /\ (last.op = "Delete" /\ last.P.type = "String")
             => last.ret = (IF exported THEN Vfalse ELSE Vtrue)
       /\ last.op = "IsExtensible" => last.ret = Vfalse
       /\ (last.op = "DefineOwnProperty" /\ last.P.type = "String" /\ ~exported)
             => last.ret = Vfalse
       /\ \A o \in NamespaceObjects : heap[o].Prototype = Vnull
FrozenStep ==
    last'.op \in {"Set", "Delete", "DefineOwnProperty", "PreventExtensions"}
       => \A o \in NamespaceObjects :
             /\ heap'[o].Exports = heap[o].Exports
             /\ heap'[o].Prototype = heap[o].Prototype
             /\ heap'[o].properties = heap[o].properties
C19_Frozen == []FrozenResult /\ [][FrozenStep]_vars

C19_Witness ==
    /\ last.op = "Delete"
    /\ last.O = "ns"
    /\ last.P = StrKey("a")
    /\ last.ret = Vfalse
    /\ heap["ns"].Exports = <<"B", "a">>

\* The result of [[Get]] with the test of the target environment before
\* the test of the binding name.
GetResult_EnvironmentFirst(o, P) ==
    IF P.name \notin GivenExports(o) THEN <<"normal", Vundefined>>
    ELSE LET binding == ResolveExport(heap[o].Module, P.name)
             targetModule == modules[binding.Module]
         IN IF targetModule.Environment = Vundefined
            THEN <<"throw", "ReferenceError">>
            ELSE IF binding.BindingName = "namespace"
            THEN <<"normal", targetModule.Namespace>>
            ELSE GetBindingValue(targetModule.bindings, binding.BindingName)

\* C20 as stated: [[Get]] of a String key returns undefined for a name that
\* is not exported; for an exported name it returns a ReferenceError throw
\* completion when the Environment of the resolved target module is
\* undefined, the namespace of the target module when the binding name is
\* namespace, and otherwise the value of the resolved binding.
C20_GetAsStated ==
    [][(last'.op = "Get" /\ last'.P.type = "String" /\ modules' = modules)
          => last'.value = GetResult_EnvironmentFirst(last'.O, last'.P)]_vars

\* The result of [[Get]] with the test of the binding name first.
GetResult(o, P) ==
    IF P.name \notin GivenExports(o) THEN <<"normal", Vundefined>>
    ELSE LET binding == ResolveExport(heap[o].Module, P.name)
             targetModule == modules[binding.Module]
         IN IF binding.BindingName = "namespace"
            THEN <<"normal", targetModule.Namespace>>
            ELSE IF targetModule.Environment = Vundefined
            THEN <<"throw", "ReferenceError">>
            ELSE GetBindingValue(targetModule.bindings, binding.BindingName)

\* C20, amended: [[Get]] of a String key returns undefined for a name that
\* is not exported; for an exported name whose resolved binding name is
\* namespace it returns the namespace of the target module, whether or not
\* the Environment of that module is undefined; for any other exported
\* name it returns a ReferenceError throw completion when the Environment
\* of the target module is undefined and otherwise the value of the
\* resolved binding.
C20_Get ==
    [][(last'.op = "Get" /\ last'.P.type = "String" /\ modules' = modules)
          => last'.value = GetResult(last'.O, last'.P)]_vars

C20_Witness ==
    /\ last.op = "Get"
    /\ last.O = "ns"
    /\ last.P = StrKey("ns")
    /\ "ns" \in GivenExports("ns")
    /\ modules["other"].Environment = Vundefined
    /\ last.value = <<"normal", "nsOther">>

---------------------------------------------------------------------------
(* ArrayBuffer objects, raw bytes and DataView accesses                    *)
(* (abstract-ops/arraybuffer-objects.mts, GetViewValue and SetViewValue)   *)

\* Table 61: the Element Size of every Element Type.
typedArrayInfoByType ==
    [Int8 |-> [ElementSize |-> 1], Uint8 |-> [ElementSize |-> 1],
     Uint8C |-> [ElementSize |-> 1], Int16 |-> [ElementSize |-> 2],
     Uint16 |-> [ElementSize |-> 2], Int32 |-> [ElementSize |-> 4],
     Uint32 |-> [ElementSize |-> 4], BigInt64 |-> [ElementSize |-> 8],
     BigUint64 |-> [ElementSize |-> 8], Float32 |-> [ElementSize |-> 4],
     Float64 |-> [ElementSize |-> 8]]
TypedArrayElementType == DOMAIN typedArrayInfoByType

IsBigIntElementType(type) ==
    IF type = "BigUint64" \/ type = "BigInt64" THEN Vtrue ELSE Vfalse

\* A Number or BigInt of the byte conversions.  An integer is its sign and
\* its magnitude in base 256, least significant digit first, without
\* leading zeros; a Number read from a float type is the sign, the biased
\* exponent and the fraction digits of its IEEE 754 form, which every
\* value but NaN has exactly one of.
Numeric(kind, sign, exp, mag) ==
    [kind |-> kind, sign |-> sign, exp |-> exp, mag |-> mag]
NaNValue == Numeric("NaN", 1, 0, <<>>)
IntegerValue(sign, mag) == Numeric("integer", sign, 0, mag)
Z(sign, mag) == Numeric("bigint", sign, 0, mag)

Reverse(seq) == [i \in 1..Len(seq) |-> seq[Len(seq) + 1 - i]]

\* The digits without the zeros at the most significant end.
RECURSIVE StripZeros(_)
StripZeros(digits) ==
    IF digits = <<>> THEN <<>>
    ELSE IF digits[Len(digits)] = 0
    THEN StripZeros(SubSeq(digits, 1, Len(digits) - 1))
    ELSE digits

\* The digits extended with zeros or cut to n digits: the value modulo 2^(8n).
Resize(digits, n) ==
    [i \in 1..n |-> IF i <= Len(digits) THEN digits[i] ELSE 0]

\* digits + 1 modulo 2^(8 * Len(digits)).
RECURSIVE AddOne(_)
AddOne(digits) ==
    IF digits = <<>> THEN <<>>
    ELSE IF Head(digits) = 255 THEN <<0>> \o AddOne(Tail(digits))
    ELSE <<Head(digits) + 1>> \o Tail(digits)

\* The two's complement of the digits: 2^(8n) - value modulo 2^(8n).
TwosComplement(digits) ==
    AddOne([i \in DOMAIN digits |-> 255 - digits[i]])

\* DataView.prototype.getInt8 .. getBigUint64 of the host on n bytes given
\* least significant byte first.
DecodeInteger(kind, signed, digits) ==
    IF signed /\ digits[Len(digits)] >= 128
    THEN Numeric(kind, -1, 0, StripZeros(TwosComplement(digits)))
    ELSE Numeric(kind, 1, 0, StripZeros(digits))

\* DataView.prototype.setInt8 .. setBigUint64 of the host: the n low bytes
\* of the two's complement form, least significant byte first.
EncodeInteger(value, n) ==
    IF value.sign = -1 THEN TwosComplement(Resize(value.mag, n))
    ELSE Resize(value.mag, n)

\* getFloat32 and getFloat64 of the host on bytes given least significant
\* byte first: NaN for an exponent of all ones and a non-zero fraction.
DecodeFloat32(d) ==
    LET exp == (d[4] % 128) * 2 + (d[3] \div 128)
        fraction == <<d[1], d[2], d[3] % 128>>
    IN IF exp = 255 /\ fraction # <<0, 0, 0>> THEN NaNValue
       ELSE Numeric("float32", IF d[4] >= 128 THEN -1 ELSE 1, exp, fraction)
DecodeFloat64(d) ==
    LET exp == (d[8] % 128) * 16 + (d[7] \div 16)
        fraction == <<d[1], d[2], d[3], d[4], d[5], d[6], d[7] % 16>>
    IN IF exp = 2047 /\ fraction # <<0, 0, 0, 0, 0, 0, 0>> THEN NaNValue
       ELSE Numeric("float64", IF d[8] >= 128 THEN -1 ELSE 1, exp, fraction)

\* setFloat32 and setFloat64 of the host for a value that is not NaN.
EncodeFloat32(v) ==
    <<v.mag[1], v.mag[2], (v.exp % 2) * 128 + v.mag[3],
      (IF v.sign = -1 THEN 128 ELSE 0) + (v.exp \div 2)>>
EncodeFloat64(v) ==
    <<v.mag[1], v.mag[2], v.mag[3], v.mag[4], v.mag[5], v.mag[6],
      (v.exp % 16) * 16 + v.mag[7],
      (IF v.sign = -1 THEN 128 ELSE 0) + (v.exp \div 16)>>

\* The Conversion Operation of Table 61 on a Number that is NaN or an
\* integer: ToInt8 .. ToUint32 are the value modulo 2^32 (NaN gives +0),
\* which EncodeInteger cuts to the element size; ToUint8Clamp clamps to
\* 0 .. 255; ToBigInt64 and ToBigUint64 keep the BigInt.
ConversionOperation(type, value) ==
    IF value.kind = "NaN" THEN IntegerValue(1, <<>>)
    ELSE IF type = "Uint8C"
    THEN IF value.sign = -1 THEN IntegerValue(1, <<>>)
         ELSE IF Len(value.mag) > 1 THEN IntegerValue(1, <<255>>)
         ELSE value
    ELSE value

Signed(type) == type \in {"Int8", "Int16", "Int32", "BigInt64"}

\* A RawBytesToNumeric that reads every element as little-endian.
RawBytesToNumeric_Little(type, rawBytes, isLittleEndian) ==
    IF type = "Float32" THEN DecodeFloat32(rawBytes)
    ELSE IF type = "Float64" THEN DecodeFloat64(rawBytes)
    ELSE DecodeInteger(IF IsBigIntElementType(type) = Vtrue
                       THEN "bigint" ELSE "integer",
                       Signed(type), rawBytes)

RawBytesToNumeric(type, rawBytes, isLittleEndian) ==
    LET digits == IF isLittleEndian = Vtrue THEN rawBytes ELSE Reverse(rawBytes)
    IN IF type = "Float32" THEN DecodeFloat32(digits)
       ELSE IF type = "Float64" THEN DecodeFloat64(digits)
       ELSE DecodeInteger(IF IsBigIntElementType(type) = Vtrue
                          THEN "bigint" ELSE "integer",
                          Signed(type), digits)

float32NaNLE == <<0, 0, 192, 127>>
float32NaNBE == <<127, 192, 0, 0>>
float64NaNLE == <<0, 0, 0, 0, 0, 0, 248, 127>>
float64NaNBE == <<127, 248, 0, 0, 0, 0, 0, 0>>

\* A NumericToRawBytes that hands NaN to the host, whose setFloat32 and
\* setFloat64 write a NaN with the sign bit set.
NumericToRawBytes_HostNaN(type, value, isLittleEndian) ==
    LET le(digits) == IF isLittleEndian = Vtrue THEN digits ELSE Reverse(digits)
    IN IF type = "Float32"
       THEN IF value.kind = "NaN" THEN le(<<0, 0, 192, 255>>)
            ELSE le(EncodeFloat32(value))
       ELSE IF type = "Float64"
       THEN IF value.kind = "NaN" THEN le(<<0, 0, 0, 0, 0, 0, 248, 255>>)
            ELSE le(EncodeFloat64(value))
       ELSE le(EncodeInteger(ConversionOperation(type, value),
                             typedArrayInfoByType[type].ElementSize))

NumericToRawBytes(type, value, isLittleEndian) ==
    LET le(digits) == IF isLittleEndian = Vtrue THEN digits ELSE Reverse(digits)
    IN IF type = "Float32"
       THEN IF value.kind = "NaN"
            THEN (IF isLittleEndian = Vtrue THEN float32NaNLE ELSE float32NaNBE)
            ELSE SubSeq(le(EncodeFloat32(value)), 1, 4)
       ELSE IF type = "Float64"
       THEN IF value.kind = "NaN"
            THEN (IF isLittleEndian = Vtrue THEN float64NaNLE ELSE float64NaNBE)
            ELSE SubSeq(le(EncodeFloat64(value)), 1, 8)
       ELSE LET n == typedArrayInfoByType[type].ElementSize
            IN SubSeq(le(EncodeInteger(ConversionOperation(type, value), n)), 1, n)

\* A DataBlock of bytes, and the null of a detached buffer in the shape of
\* a block.
DataBlock(bytes) == [null |-> FALSE, bytes |-> bytes]
NullBlock == [null |-> TRUE, bytes |-> <<>>]

\* AllocateArrayBuffer with the bytes and the detach key the program gave
\* the buffer afterwards.
ArrayBufferObject(id, bytes, detachKey) ==
    [id |-> id, kind |-> "arraybuffer", ArrayBufferData |-> DataBlock(bytes),
     ArrayBufferByteLength |-> Len(bytes), ArrayBufferDetachKey |-> detachKey]

DataViewObject(id, buffer, byteLength, byteOffset) ==
    [id |-> id, kind |-> "dataview", ViewedArrayBuffer |-> buffer,
     ByteLength |-> byteLength, ByteOffset |-> byteOffset]

IsDetachedBuffer(arrayBuffer) ==
    IF arrayBuffer.ArrayBufferData.null THEN Vtrue ELSE Vfalse

\* A completion of the buffer operations: the Value of a normal
\* completion is a Numeric, the error of a throw completion its type.
NoNumeric == Numeric("none", 1, 0, <<>>)
BufferCompletion(Type, Value, error) ==
    [Type |-> Type, Value |-> Value, error |-> error]
BufferThrow(error) == BufferCompletion("throw", NoNumeric, error)
BufferNormal(Value) == BufferCompletion("normal", Value, "none")

\* A DetachArrayBuffer that takes any key.
DetachArrayBuffer_AnyKey(arrayBuffer, key) ==
    [completion |-> BufferNormal(NoNumeric),
     O |-> [arrayBuffer EXCEPT !.ArrayBufferData = NullBlock,
                               !.ArrayBufferByteLength = 0]]

\* DetachArrayBuffer(arrayBuffer, key); key is absent when not present.
DetachArrayBuffer(arrayBuffer, key) ==
    LET k == IF key = absent THEN Vundefined ELSE key
    IN IF SameValue(arrayBuffer.ArrayBufferDetachKey, k) = Vfalse
       THEN [completion |-> BufferThrow("TypeError"), O |-> arrayBuffer]
       ELSE [completion |-> BufferNormal(NoNumeric),
             O |-> [arrayBuffer EXCEPT !.ArrayBufferData = NullBlock,
                                       !.ArrayBufferByteLength = 0]]

\* block.subarray(begin, end): the bytes of the indices begin .. end - 1
\* that the block has (indices count from 0).
subarray(block, begin, end) ==
    [i \in 1..((IF end < Len(block) THEN end ELSE Len(block)) - begin) |->
        block[begin + i]]

\* GetValueFromBuffer: the value with the indices of the block it read;
\* the assertion on the length of rawValue fails when the block ends
\* before byteIndex + elementSize.
GetValueFromBuffer(arrayBuffer, byteIndex, type, isLittleEndian) ==
    LET block == arrayBuffer.ArrayBufferData.bytes
        elementSize == typedArrayInfoByType[type].ElementSize
        rawValue == subarray(block, byteIndex, byteIndex + elementSize)
    IN IF Len(rawValue) # elementSize
       THEN [completion |-> BufferThrow("AssertionError"),
             touched |-> {i \in byteIndex..(byteIndex + elementSize - 1) :
                             i < Len(block)}]
       ELSE [completion |-> BufferNormal(RawBytesToNumeric(type, rawValue,
                                                           isLittleEndian)),
             touched |-> byteIndex..(byteIndex + elementSize - 1)]

\* SetValueInBuffer: the buffer after block[byteIndex + i] = byte for every
\* byte of rawBytes, with the indices of the block it wrote; a store past
\* the end of the block stores nothing.
SetValueInBuffer(arrayBuffer, byteIndex, type, value, isLittleEndian) ==
    With(NumericToRawBytes(type, value, isLittleEndian), LAMBDA rawBytes :
        LET block == arrayBuffer.ArrayBufferData.bytes
        IN [O |-> [arrayBuffer EXCEPT !.ArrayBufferData.bytes =
                      [j \in DOMAIN block |->
                          IF j - 1 >= byteIndex /\ j - 1 < byteIndex + Len(rawBytes)
                          THEN rawBytes[j - byteIndex] ELSE block[j]]],
            touched |-> {i \in byteIndex..(byteIndex + Len(rawBytes) - 1) :
                            i < Len(block)},
            rawBytes |-> rawBytes])

\* ToBigInt and ToNumber of a value that is a Number or a BigInt.
ToBigIntNumeric(value) ==
    IF value.kind = "bigint" THEN BufferNormal(value) ELSE BufferThrow("TypeError")
ToNumberNumeric(value) ==
    IF value.kind = "bigint" THEN BufferThrow("TypeError") ELSE BufferNormal(value)

\* The result of a view access: its completion, the buffer after it, the
\* indices of the block it read or wrote and the bytes it stored.
ViewResult(completion, O, touched, rawBytes) ==
    [completion |-> completion, O |-> O, touched |-> touched,
     rawBytes |-> rawBytes]

\* A GetViewValue that lets an element end one byte past the view.
GetViewValue_OnePast(view, getIndex, isLittleEndian, type) ==
    LET buffer == heap[view.ViewedArrayBuffer]
        elementSize == typedArrayInfoByType[type].ElementSize
    IN IF IsDetachedBuffer(buffer) = Vtrue
       THEN ViewResult(BufferThrow("TypeError"), buffer, {}, <<>>)
       ELSE IF getIndex + elementSize > view.ByteLength + 1
       THEN ViewResult(BufferThrow("RangeError"), buffer, {}, <<>>)
       ELSE With(GetValueFromBuffer(buffer, getIndex + view.ByteOffset,
                                    type, isLittleEndian),
                 LAMBDA r : ViewResult(r.completion, buffer, r.touched, <<>>))

\* GetViewValue(view, requestIndex, isLittleEndian, type) for a DataView
\* view, an integer index getIndex and a Boolean isLittleEndian.
GetViewValue(view, getIndex, isLittleEndian, type) ==
    LET buffer == heap[view.ViewedArrayBuffer]
        viewOffset == view.ByteOffset
        viewSize == view.ByteLength
        elementSize == typedArrayInfoByType[type].ElementSize
    IN IF IsDetachedBuffer(buffer) = Vtrue
       THEN ViewResult(BufferThrow("TypeError"), buffer, {}, <<>>)
       ELSE IF getIndex + elementSize > viewSize
       THEN ViewResult(BufferThrow("RangeError"), buffer, {}, <<>>)
       ELSE With(GetValueFromBuffer(buffer, getIndex + viewOffset,
                                    type, isLittleEndian),
                 LAMBDA r : ViewResult(r.completion, buffer, r.touched, <<>>))

\* ToPrimitive of the value of a SetViewValue: a Number or BigInt is
\* itself; the valueOf of an object is user code, which here performs
\* DetachArrayBuffer(buffer, key) and returns a Number or BigInt.  The
\* completion, and the buffer after the call.
ValueOf(value, arrayBuffer) ==
    IF value.kind # "object"
    THEN [completion |-> BufferNormal(value), O |-> arrayBuffer]
    ELSE With(DetachArrayBuffer(arrayBuffer, value.key), LAMBDA r :
             IF r.completion.Type = "throw" THEN r
             ELSE [completion |-> BufferNormal(value.valueOf), O |-> r.O])

\* A SetViewValue that looks at the buffer before it converts the value.
SetViewValue_ChecksFirst(view, getIndex, isLittleEndian, type, value) ==
    LET converted == ValueOf(value, heap[view.ViewedArrayBuffer])
        numeric == IF converted.completion.Type = "throw"
                   THEN converted.completion
                   ELSE IF IsBigIntElementType(type) = Vtrue
                   THEN ToBigIntNumeric(converted.completion.Value)
                   ELSE ToNumberNumeric(converted.completion.Value)
        buffer == converted.O
        elementSize == typedArrayInfoByType[type].ElementSize
    IN IF IsDetachedBuffer(heap[view.ViewedArrayBuffer]) = Vtrue
       THEN ViewResult(BufferThrow("TypeError"), heap[view.ViewedArrayBuffer],
                       {}, <<>>)
       ELSE IF numeric.Type = "throw"
       THEN ViewResult(numeric, buffer, {}, <<>>)
       ELSE IF getIndex + elementSize > view.ByteLength
       THEN ViewResult(BufferThrow("RangeError"), buffer, {}, <<>>)
       ELSE With(SetValueInBuffer(buffer, getIndex + view.ByteOffset, type,
                                  numeric.Value, isLittleEndian),
                 LAMBDA r : ViewResult(BufferNormal(NoNumeric), r.O,
                                       r.touched, r.rawBytes))

\* SetViewValue(view, requestIndex, isLittleEndian, type, value); the
\* buffer is the one the conversion of the value has left.
SetViewValue(view, getIndex, isLittleEndian, type, value) ==
    LET converted == ValueOf(value, heap[view.ViewedArrayBuffer])
        numeric == IF converted.completion.Type = "throw"
                   THEN converted.completion
                   ELSE IF IsBigIntElementType(type) = Vtrue
                   THEN ToBigIntNumeric(converted.completion.Value)
                   ELSE ToNumberNumeric(converted.completion.Value)
        buffer == converted.O
        viewOffset == view.ByteOffset
        viewSize == view.ByteLength
        elementSize == typedArrayInfoByType[type].ElementSize
    IN IF numeric.Type = "throw"
       THEN ViewResult(numeric, buffer, {}, <<>>)
       ELSE IF IsDetachedBuffer(buffer) = Vtrue
       THEN ViewResult(BufferThrow("TypeError"), buffer, {}, <<>>)
       ELSE IF getIndex + elementSize > viewSize
       THEN ViewResult(BufferThrow("RangeError"), buffer, {}, <<>>)
       ELSE With(SetValueInBuffer(buffer, getIndex + viewOffset, type,
                                  numeric.Value, isLittleEndian),
                 LAMBDA r : ViewResult(BufferNormal(NoNumeric), r.O,
                                       r.touched, r.rawBytes))

---------------------------------------------------------------------------
(* A DataView of eight bytes at offset 1 of a buffer of ten bytes, read    *)
(* and written through one pair of accessors (SpecDataView)                *)

MaxWrites == 1


\* The contents of the buffer at the start: distinct bytes; all ones (a
\* NaN with a payload, -1); the canonical NaN, the infinities and -0 of
\* the float types in the bytes of the view.
InitialBlocks ==
    {<<1, 2, 3, 4, 5, 6, 7, 8, 9, 10>>,
     <<255, 255, 255, 255, 255, 255, 255, 255, 255, 255>>,
     <<0, 0, 0, 0, 0, 0, 0, 248, 127, 0>>,
     <<0, 0, 0, 128, 127, 255, 128, 0, 0, 128>>,
     <<0, 0, 0, 0, 0, 0, 0, 0, 128, 0>>}
DetachKeys == {Vundefined, "k1"}
ViewIndices == {0, 4, 6, 7, 8}
ViewValues ==
    {NaNValue, IntegerValue(-1, <<1>>), IntegerValue(1, <<0, 1>>), Z(-1, <<1>>)}

\* The values the model can convert to the element type: a BigInt (which
\* ToNumber refuses), and the Numbers of the type's own kind.
Representable(type, value) ==
    LET primitive == IF value.kind = "object" THEN value.valueOf ELSE value
    IN \/ primitive.kind \in {"NaN", "bigint"}
       \/ IsBigIntElementType(type) = Vtrue
       \/ type = "Float32" /\ primitive.kind = "float32"
       \/ type = "Float64" /\ primitive.kind = "float64"
       \/ type \notin {"Float32", "Float64"} /\ primitive.kind = "integer"

ViewCall(op, getIndex, value, wroteBack, r, writes) ==
    [op |-> op, getIndex |-> getIndex, value |-> value, wroteBack |-> wroteBack,
     completion |-> r.completion, touched |-> r.touched, rawBytes |-> r.rawBytes,
     writes |-> writes]

\* The program is dv = new DataView(buf, 1, 8) with calls of
\* dv.get<type>(i, isLittleEndian) and dv.set<type>(i, v, isLittleEndian).
InitDataView ==
    \E bytes \in InitialBlocks, key \in DetachKeys,
       type \in TypedArrayElementType, isLittleEndian \in {Vtrue, Vfalse} :
       /\ heap = [o \in {"buf", "view", "method"} |->
                    IF o = "buf" THEN ArrayBufferObject("buf", bytes, key)
                    ELSE IF o = "view"
                    THEN DataViewObject("view", "buf", 8, 1)
                    ELSE [id |-> "method", kind |-> "builtin", type |-> type,
                          isLittleEndian |-> isLittleEndian]]
       /\ last = ViewCall("init", 0, NoNumeric, FALSE,
                          ViewResult(BufferNormal(NoNumeric), 0, {}, <<>>), 0)
       /\ modules = NoModules
       /\ defined = {}
       /\ AgentIdle

DoGetViewValue(getIndex) ==
    \E r \in {GetViewValue(heap["view"], getIndex, heap["method"].isLittleEndian,
                           heap["method"].type)} :
       /\ last' = ViewCall("GetViewValue", getIndex, NoNumeric, FALSE, r,
                           last.writes)
       /\ UNCHANGED <<heap, modules, defined, agentVars, jobVars>>

DoSetViewValue(getIndex, value) ==
    /\ last.writes < MaxWrites
    /\ Representable(heap["method"].type, value)
    /\ \E r \in {SetViewValue(heap["view"], getIndex,
                              heap["method"].isLittleEndian,
                              heap["method"].type, value)} :
          /\ heap' = [heap EXCEPT !["buf"] = r.O]
          /\ last' = ViewCall("SetViewValue", getIndex, value,
                              /\ last.op = "GetViewValue"
                              /\ last.completion.Type = "normal"
                              /\ last.getIndex = getIndex
                              /\ last.completion.Value = value,
                              r, last.writes + 1)
    /\ UNCHANGED <<modules, defined, agentVars, jobVars>>

DoDetachArrayBuffer(key) ==
    \E r \in {DetachArrayBuffer(heap["buf"], key)} :
       /\ heap' = [heap EXCEPT !["buf"] = r.O]
       /\ last' = ViewCall("DetachArrayBuffer", 0,
                           Numeric("key", 1, 0, <<>>), key # absent,
                           ViewResult(r.completion, r.O, {}, <<>>), last.writes)
       /\ UNCHANGED <<modules, defined, agentVars, jobVars>>

NextDataView ==
    \/ \E getIndex \in ViewIndices : DoGetViewValue(getIndex)
    \/ \E getIndex \in ViewIndices,
          value \in ViewValues \cup {last.completion.Value} :
          DoSetViewValue(getIndex, value)
    \/ \E key \in {absent, "k1"} : DoDetachArrayBuffer(key)

SpecDataView == InitDataView /\ [][NextDataView]_vars

BlockOf(h) == h["buf"].ArrayBufferData.bytes
ElementSizeOfMethod == typedArrayInfoByType[heap["method"].type].ElementSize
ViewRange ==
    heap["view"].ByteOffset..(heap["view"].ByteOffset + heap["view"].ByteLength - 1)
ElementRange(getIndex) ==
    (heap["view"].ByteOffset + getIndex)
       ..(heap["view"].ByteOffset + getIndex + ElementSizeOfMethod - 1)
OutOfView(getIndex) == getIndex + ElementSizeOfMethod > heap["view"].ByteLength
ViewCallStep == last' # last /\ last'.op \in {"GetViewValue", "SetViewValue"}
Threw(call, error) == call.completion.Type = "throw" /\ call.completion.error = error

\* Every access leaves the bytes it did not touch as they were, touches
\* only bytes of the view, and a read changes no byte.
OnlyTouchedChange ==
    /\ last'.touched \subseteq ViewRange
    /\ Len(BlockOf(heap')) = Len(BlockOf(heap))
    /\ \A j \in DOMAIN BlockOf(heap) :
          (j - 1) \notin last'.touched => BlockOf(heap')[j] = BlockOf(heap)[j]
    /\ last'.op = "GetViewValue" => heap' = heap

\* C21 as stated: GetViewValue and SetViewValue return a RangeError throw
\* completion whenever getIndex + elementSize exceeds the ByteLength of the
\* view, and otherwise read or write exactly the elementSize bytes of the
\* buffer from ByteOffset + getIndex on; no byte outside the view is read
\* or written.
C21_AccessAsStated ==
    [][ViewCallStep =>
          /\ IF OutOfView(last'.getIndex) THEN Threw(last', "RangeError")
             ELSE /\ last'.completion.Type = "normal"
                  /\ last'.touched = ElementRange(last'.getIndex)
          /\ OnlyTouchedChange]_vars

\* SetViewValue converts its value before it looks at the buffer: a Number
\* for a BigInt type and a BigInt for a Number type are refused.
Converts(call) ==
    call.op = "SetViewValue" =>
        ((call.value.kind = "bigint") <=> (IsBigIntElementType(heap["method"].type) = Vtrue))

\* C21, amended: an access whose value does not convert, or whose buffer is
\* detached, returns a TypeError throw completion and touches no byte;
\* otherwise the access returns a RangeError throw completion when
\* getIndex + elementSize exceeds the ByteLength of the view and touches no
\* byte, and else it reads or writes exactly the elementSize bytes of the
\* buffer from ByteOffset + getIndex on.  No access reads or writes a byte
\* outside the view or changes a byte it did not write.
C21_Access ==
    [][ViewCallStep =>
          /\ IF ~Converts(last') \/ IsDetachedBuffer(heap["buf"]) = Vtrue
             THEN Threw(last', "TypeError") /\ last'.touched = {}
             ELSE IF OutOfView(last'.getIndex)
             THEN Threw(last', "RangeError") /\ last'.touched = {}
             ELSE /\ last'.completion.Type = "normal"
                  /\ last'.touched = ElementRange(last'.getIndex)
          /\ OnlyTouchedChange]_vars

C21_Witness ==
    /\ last.op = "SetViewValue"
    /\ heap["method"].type = "Int16"
    /\ last.getIndex = 6
    /\ last.completion.Type = "normal"
    /\ last.touched = {7, 8}
    /\ BlockOf(heap)[10] = 10

\* C22: for every element type, offset inside the view and endianness, a
\* SetViewValue that writes back the value the GetViewValue before it read
\* at the same offset leaves every byte of the buffer as it was, unless
\* the value read is NaN.
C22_ReadThenWrite ==
    [][(/\ last'.op = "SetViewValue"
        /\ last'.wroteBack
        /\ last'.completion.Type = "normal"
        /\ last'.value.kind # "NaN")
          => /\ heap' = heap
             /\ last'.rawBytes =
                   [i \in 1..ElementSizeOfMethod |->
                       BlockOf(heap)[heap["view"].ByteOffset + last'.getIndex + i]]]_vars

C22_Witness ==
    /\ last.op = "SetViewValue"
    /\ last.wroteBack
    /\ last.completion.Type = "normal"
    /\ heap["method"].type = "Float32"
    /\ heap["method"].isLittleEndian = Vfalse
    /\ last.value.kind = "float32"
    /\ last.rawBytes = <<2, 3, 4, 5>>

\* C23: DetachArrayBuffer with a key that is the buffer's
\* ArrayBufferDetachKey (undefined for no key) sets ArrayBufferData to null
\* and ArrayBufferByteLength to 0; with another key it returns a TypeError
\* throw completion and leaves the buffer as it was.  IsDetachedBuffer is
\* true exactly when ArrayBufferData is null, and once true it stays true.
DetachedIsNull ==
    (IsDetachedBuffer(heap["buf"]) = Vtrue) <=> (heap["buf"].ArrayBufferData = NullBlock)
DetachStep ==
    /\ (last' # last /\ last'.op = "DetachArrayBuffer") =>
          LET key == IF last'.wroteBack THEN "k1" ELSE Vundefined
          IN IF heap["buf"].ArrayBufferDetachKey = key
             THEN /\ last'.completion.Type = "normal"
                  /\ heap'["buf"].ArrayBufferData = NullBlock
                  /\ heap'["buf"].ArrayBufferByteLength = 0
                  /\ IsDetachedBuffer(heap'["buf"]) = Vtrue
             ELSE /\ Threw(last', "TypeError")
                  /\ heap' = heap
    /\ IsDetachedBuffer(heap["buf"]) = Vtrue => IsDetachedBuffer(heap'["buf"]) = Vtrue
C23_Detach == []DetachedIsNull /\ [][DetachStep]_vars

C23_Witness ==
    /\ last.op = "DetachArrayBuffer"
    /\ last.completion.Type = "normal"
    /\ heap["buf"].ArrayBufferDetachKey = "k1"
    /\ heap["buf"].ArrayBufferData = NullBlock
    /\ heap["buf"].ArrayBufferByteLength = 0

\* C24: the bytes of a NaN are [0,0,192,127] (little-endian) and
\* [127,192,0,0] (big-endian) for Float32, [0,0,0,0,0,0,248,127] and
\* [127,248,0,0,0,0,0,0] for Float64, the big-endian bytes being the
\* little-endian bytes reversed; for every element type the bytes of a
\* value are as many as the Element Size of the type.
C24_RawBytes ==
    (last.op = "SetViewValue" /\ last.completion.Type = "normal") =>
        LET type == heap["method"].type
            little == heap["method"].isLittleEndian = Vtrue
        IN /\ Len(last.rawBytes) = typedArrayInfoByType[type].ElementSize
           /\ (last.value.kind = "NaN" /\ type = "Float32") =>
                 last.rawBytes = (IF little THEN <<0, 0, 192, 127>>
                                  ELSE Reverse(<<0, 0, 192, 127>>))
           /\ (last.value.kind = "NaN" /\ type = "Float64") =>
                 last.rawBytes = (IF little THEN <<0, 0, 0, 0, 0, 0, 248, 127>>
                                  ELSE Reverse(<<0, 0, 0, 0, 0, 0, 248, 127>>))
           /\ Reverse(<<0, 0, 192, 127>>) = <<127, 192, 0, 0>>
           /\ Reverse(<<0, 0, 0, 0, 0, 0, 248, 127>>) = <<127, 248, 0, 0, 0, 0, 0, 0>>

C24_Witness ==
    /\ last.op = "SetViewValue"
    /\ last.completion.Type = "normal"
    /\ heap["method"].type = "Float64"
    /\ heap["method"].isLittleEndian = Vfalse
    /\ last.value = NaNValue
    /\ last.rawBytes = <<127, 248, 0, 0, 0, 0, 0, 0>>

---------------------------------------------------------------------------
(* The shift operations of Number (value.mts) and of ShiftExpression       *)

InfinityValue(sign) == Numeric("Infinity", sign, 0, <<>>)

\* ToInt32 and ToUint32 of a Number that is NaN, an infinity or an
\* integer: +0 for NaN and the infinities, else the integer modulo 2^32,
\* in -2^31 .. 2^31 - 1 and in 0 .. 2^32 - 1.
ToInt32(argument) ==
    IF argument.kind # "integer" THEN IntegerValue(1, <<>>)
    ELSE DecodeInteger("integer", TRUE, EncodeInteger(argument, 4))
ToUint32Integer(argument) ==
    IF argument.kind # "integer" THEN IntegerValue(1, <<>>)
    ELSE DecodeInteger("integer", FALSE, EncodeInteger(argument, 4))

\* The 32 bits of four bytes, least significant first, and back.
Bits(bytes) ==
    [i \in 1..32 |-> (bytes[((i - 1) \div 8) + 1] \div (2 ^ ((i - 1) % 8))) % 2]
BytesOfBits(bits) ==
    [k \in 1..4 |->
        LET b(j) == bits[8 * (k - 1) + j]
        IN b(1) + 2 * b(2) + 4 * b(3) + 8 * b(4) + 16 * b(5) + 32 * b(6)
           + 64 * b(7) + 128 * b(8)]

\* The operators <<, >> and >>> of the host on two Numbers: the left
\* operand as 32 bits, the count modulo 32, the result read as a signed
\* (<<, >>) or an unsigned (>>>) 32-bit integer.
HostShift(operator, lnum, shiftCount) ==
    LET bits == Bits(EncodeInteger(lnum, 4))
        count == shiftCount % 32
        shifted ==
            IF operator = "<<"
            THEN [i \in 1..32 |-> IF i > count THEN bits[i - count] ELSE 0]
            ELSE [i \in 1..32 |-> IF i + count <= 32 THEN bits[i + count]
                                   ELSE IF operator = ">>" THEN bits[32] ELSE 0]
    IN DecodeInteger("integer", operator # ">>>", BytesOfBits(shifted))

\* rnum.numberValue() & 0x1F for an rnum in 0 .. 2^32 - 1.
MaskShiftCount(rnum) == IF rnum.mag = <<>> THEN 0 ELSE rnum.mag[1] % 32

leftShift(x, y) ==
    LET lnum == ToInt32(x)
        rnum == ToUint32Integer(y)
        shiftCount == MaskShiftCount(rnum)
    IN HostShift("<<", lnum, shiftCount)

signedRightShift(x, y) ==
    LET lnum == ToInt32(x)
        rnum == ToUint32Integer(y)
        shiftCount == MaskShiftCount(rnum)
    IN HostShift(">>", lnum, shiftCount)

\* An unsignedRightShift that shifts the sign in.
unsignedRightShift_Signed(x, y) ==
    LET lnum == ToInt32(x)
        rnum == ToUint32Integer(y)
        shiftCount == MaskShiftCount(rnum)
    IN HostShift(">>", lnum, shiftCount)

unsignedRightShift(x, y) ==
    LET lnum == ToInt32(x)
        rnum == ToUint32Integer(y)
        shiftCount == MaskShiftCount(rnum)
    IN HostShift(">>>", lnum, shiftCount)

\* Evaluate_ShiftExpression for operands whose values are the Numbers lval
\* and rval.
Evaluate_ShiftExpression(lval, operator, rval) ==
    IF operator = "<<"
    THEN LET lnum == ToInt32(lval)
             rnum == ToUint32Integer(rval)
             shiftCount == MaskShiftCount(rnum)
         IN HostShift("<<", lnum, shiftCount)
    ELSE IF operator = ">>"
    THEN LET lnum == ToInt32(lval)
             rnum == ToUint32Integer(rval)
             shiftCount == MaskShiftCount(rnum)
         IN HostShift(">>", lnum, shiftCount)
    ELSE LET lnum == ToUint32Integer(lval)
             rnum == ToUint32Integer(rval)
             shiftCount == MaskShiftCount(rnum)
         IN HostShift(">>>", lnum, shiftCount)

\* The operands: 0, 1, -1, 5, -8, 2^31 - 1, -2^31, 2^31, 2^32 + 1, NaN and
\* the infinities on the left; 0, 1, 4, 31, 32, 33, 64, -1, 2^32 + 1 and
\* NaN on the right.
ShiftOperators == {"<<", ">>", ">>>"}
LeftOperands ==
    {IntegerValue(1, <<>>), IntegerValue(1, <<1>>), IntegerValue(-1, <<1>>),
     IntegerValue(1, <<5>>), IntegerValue(-1, <<8>>),
     IntegerValue(1, <<255, 255, 255, 127>>), IntegerValue(-1, <<0, 0, 0, 128>>),
     IntegerValue(1, <<0, 0, 0, 128>>), IntegerValue(1, <<1, 0, 0, 0, 1>>),
     NaNValue, InfinityValue(1), InfinityValue(-1)}
RightOperands ==
    {IntegerValue(1, <<>>), IntegerValue(1, <<1>>), IntegerValue(1, <<4>>),
     IntegerValue(1, <<31>>), IntegerValue(1, <<32>>), IntegerValue(1, <<33>>),
     IntegerValue(1, <<64>>), IntegerValue(-1, <<1>>),
     IntegerValue(1, <<1, 0, 0, 0, 1>>), NaNValue}

ShiftCall(via, operator, x, y, value) ==
    [via |-> via, operator |-> operator, x |-> x, y |-> y, value |-> value]

InitShift ==
    \E x \in LeftOperands, y \in RightOperands :
       /\ last = ShiftCall("init", "<<", x, y, NoNumeric)
       /\ heap = <<>>
       /\ modules = NoModules
       /\ defined = {}
       /\ AgentIdle

DoNumberShift(operator) ==
    /\ last' = ShiftCall("NumberValue", operator, last.x, last.y,
                         IF operator = "<<" THEN leftShift(last.x, last.y)
                         ELSE IF operator = ">>"
                         THEN signedRightShift(last.x, last.y)
                         ELSE unsignedRightShift(last.x, last.y))
    /\ UNCHANGED <<heap, modules, defined, agentVars, jobVars>>

DoEvaluate_ShiftExpression(operator) ==
    /\ last' = ShiftCall("Evaluate", operator, last.x, last.y,
                         Evaluate_ShiftExpression(last.x, operator, last.y))
    /\ UNCHANGED <<heap, modules, defined, agentVars, jobVars>>

NextShift ==
    \/ \E operator \in ShiftOperators : DoNumberShift(operator)
    \/ \E operator \in ShiftOperators : DoEvaluate_ShiftExpression(operator)

SpecShift == InitShift /\ [][NextShift]_vars

\* The Number operation of an operator.
NumberShift(operator, x, y) ==
    IF operator = "<<" THEN leftShift(x, y)
    ELSE IF operator = ">>" THEN signedRightShift(x, y)
    ELSE unsignedRightShift(x, y)

\* y mod 32 of an operand that is an integer and not negative.
Mod32(y) ==
    IF y.mag = <<>> \/ y.mag[1] % 32 = 0 THEN IntegerValue(1, <<>>)
    ELSE IntegerValue(1, <<y.mag[1] % 32>>)

\* An integer in -2^31 .. 2^31 - 1, and one in 0 .. 2^32 - 1.
IsInt32(v) ==
    /\ v.kind = "integer"
    /\ \/ Len(v.mag) < 4
       \/ Len(v.mag) = 4 /\ v.mag[4] < 128
       \/ v.sign = -1 /\ v.mag = <<0, 0, 0, 128>>
IsUint32(v) == v.kind = "integer" /\ v.sign = 1 /\ Len(v.mag) <= 4

\* C25: the shifts of Number use the shift count ToUint32(y) & 0x1F, so a
\* shift by y and a shift by y mod 32 give the same result, 1 << 33 is 2;
\* the results of << and >> are signed 32-bit integers, the result of >>>
\* is an unsigned 32-bit integer, (-1) >>> 0 is 4294967295; and
\* Evaluate_ShiftExpression gives the result of the Number operation for
\* all Number operands.
C25_Shifts ==
    last.via # "init" =>
        /\ (last.y.kind = "integer" /\ last.y.sign = 1) =>
              last.value = NumberShift(last.operator, last.x, Mod32(last.y))
        /\ last.operator \in {"<<", ">>"} => IsInt32(last.value)
        /\ last.operator = ">>>" => IsUint32(last.value)
        /\ last.value = NumberShift(last.operator, last.x, last.y)
        /\ (last.operator = "<<" /\ last.x = IntegerValue(1, <<1>>)
               /\ last.y = IntegerValue(1, <<33>>))
              => last.value = IntegerValue(1, <<2>>)
        /\ (last.operator = ">>>" /\ last.x = IntegerValue(-1, <<1>>)
               /\ last.y = IntegerValue(1, <<>>))
              => last.value = IntegerValue(1, <<255, 255, 255, 255>>)
        /\ (last.operator = ">>" /\ last.x = IntegerValue(-1, <<8>>)
               /\ last.y = IntegerValue(1, <<33>>))
              => last.value = IntegerValue(-1, <<4>>)

C25_Witness ==
    /\ last.via = "Evaluate"
    /\ last.operator = ">>>"
    /\ last.x = IntegerValue(-1, <<1>>)
    /\ last.y = IntegerValue(1, <<32>>)
    /\ last.value = IntegerValue(1, <<255, 255, 255, 255>>)

---------------------------------------------------------------------------
(* Number::equal, Number::sameValue and Number::sameValueZero (value.mts)  *)

PositiveZero == IntegerValue(1, <<>>)
NegativeZero == IntegerValue(-1, <<>>)

isNaN(x) == x.kind = "NaN"

\* xVal === yVal of the host on two numbers: false with a NaN, true for
\* the two zeros, else the identity of the numbers.
StrictEquals(xVal, yVal) ==
    /\ ~isNaN(xVal)
    /\ ~isNaN(yVal)
    /\ \/ xVal = yVal
       \/ xVal \in {PositiveZero, NegativeZero} /\ yVal \in {PositiveZero, NegativeZero}

\* Object.is(xVal, v) of the host.
ObjectIs(xVal, v) == xVal = v

equal(x, y) ==
    IF isNaN(x) THEN Vfalse
    ELSE IF isNaN(y) THEN Vfalse
    ELSE IF StrictEquals(x, y) THEN Vtrue
    ELSE IF ObjectIs(x, PositiveZero) /\ ObjectIs(y, NegativeZero) THEN Vtrue
    ELSE IF ObjectIs(x, NegativeZero) /\ ObjectIs(y, PositiveZero) THEN Vtrue
    ELSE Vfalse

\* A sameValue that is the === of the host.
sameValue_StrictEquals(x, y) ==
    IF StrictEquals(x, y) THEN Vtrue ELSE Vfalse

sameValue(x, y) ==
    IF isNaN(x) /\ isNaN(y) THEN Vtrue
    ELSE IF ObjectIs(x, PositiveZero) /\ ObjectIs(y, NegativeZero) THEN Vfalse
    ELSE IF ObjectIs(x, NegativeZero) /\ ObjectIs(y, PositiveZero) THEN Vfalse
    ELSE IF StrictEquals(x, y) THEN Vtrue
    ELSE Vfalse

sameValueZero(x, y) ==
    IF isNaN(x) /\ isNaN(y) THEN Vtrue
    ELSE IF ObjectIs(x, PositiveZero) /\ ObjectIs(y, NegativeZero) THEN Vtrue
    ELSE IF ObjectIs(x, NegativeZero) /\ ObjectIs(y, PositiveZero) THEN Vtrue
    ELSE IF StrictEquals(x, y) THEN Vtrue
    ELSE Vfalse

\* The operands: +0, -0, 1, -1, 256, 2^32 + 1, NaN and the infinities.
NumberOperands ==
    {PositiveZero, NegativeZero, IntegerValue(1, <<1>>), IntegerValue(-1, <<1>>),
     IntegerValue(1, <<0, 1>>), IntegerValue(1, <<1, 0, 0, 0, 1>>), NaNValue,
     InfinityValue(1), InfinityValue(-1)}
NumberComparisons == {"equal", "sameValue", "sameValueZero"}

NumberCall(op, x, y, value) == [op |-> op, x |-> x, y |-> y, value |-> value]

NumberComparison(op, x, y) ==
    IF op = "equal" THEN equal(x, y)
    ELSE IF op = "sameValue" THEN sameValue(x, y)
    ELSE sameValueZero(x, y)

InitNumber ==
    \E x \in NumberOperands, y \in NumberOperands :
       /\ last = NumberCall("init", x, y, Vfalse)
       /\ heap = <<>>
       /\ modules = NoModules
       /\ defined = {}
       /\ AgentIdle

DoEqual ==
    /\ last' = NumberCall("equal", last.x, last.y, equal(last.x, last.y))
    /\ UNCHANGED <<heap, modules, defined, agentVars, jobVars>>

DoSameValue ==
    /\ last' = NumberCall("sameValue", last.x, last.y, sameValue(last.x, last.y))
    /\ UNCHANGED <<heap, modules, defined, agentVars, jobVars>>

DoSameValueZero ==
    /\ last' = NumberCall("sameValueZero", last.x, last.y,
                          sameValueZero(last.x, last.y))
    /\ UNCHANGED <<heap, modules, defined, agentVars, jobVars>>

NextNumber == DoEqual \/ DoSameValue \/ DoSameValueZero

SpecNumber == InitNumber /\ [][NextNumber]_vars

\* C26: sameValue(NaN, NaN) is true and sameValue(+0, -0) false;
\* sameValueZero(NaN, NaN) and sameValueZero(+0, -0) are true; equal is
\* false with a NaN operand and true for +0 and -0; for every other pair
\* the three are true exactly when the operands are the same number; and
\* each gives the same result with its arguments exchanged.
C26_NumberEquality ==
    last.op # "init" =>
        LET x == last.x
            y == last.y
            zeros == {x, y} = {PositiveZero, NegativeZero}
            aNaN == x = NaNValue \/ y = NaNValue
        IN /\ last.value \in {Vtrue, Vfalse}
           /\ (x = NaNValue /\ y = NaNValue) =>
                 (last.value = Vtrue <=> last.op \in {"sameValue", "sameValueZero"})
           /\ zeros => (last.value = Vtrue <=> last.op \in {"equal", "sameValueZero"})
           /\ (aNaN /\ last.op = "equal") => last.value = Vfalse
           /\ (~zeros /\ ~aNaN) => (last.value = Vtrue <=> x = y)
           /\ (~zeros /\ aNaN /\ last.op # "equal") => (last.value = Vtrue <=> x = y)
           /\ last.value = NumberComparison(last.op, y, x)

C26_Witness ==
    /\ last.op = "sameValue"
    /\ last.x = PositiveZero
    /\ last.y = NegativeZero
    /\ last.value = Vfalse

---------------------------------------------------------------------------
(* BigInt::exponentiate, divide, remainder and unsignedRightShift          *)
(* (value.mts)                                                             *)

BigIntValue(bigint) == [bigint |-> bigint]
BigIntCompletion(Type, Value, error) ==
    [Type |-> Type, Value |-> Value, error |-> error]
BigIntThrow(error) == BigIntCompletion("throw", BigIntValue(0), error)
BigIntNormal(bigint) == BigIntCompletion("normal", BigIntValue(bigint), "none")

Abs(n) == IF n < 0 THEN -n ELSE n

\* x / y and x % y of the host on two bigints, y not 0n: the quotient is
\* rounded towards zero and the remainder has the sign of x.
HostDivide(x, y) ==
    LET q == Abs(x) \div Abs(y)
    IN IF (x < 0) = (y < 0) THEN q ELSE -q
HostRemainder(x, y) ==
    LET r == Abs(x) % Abs(y)
    IN IF x < 0 THEN -r ELSE r

\* base ** exponent of the host on two bigints, exponent not negative.
RECURSIVE HostPower(_, _)
HostPower(base, exponent) ==
    IF exponent = 0 THEN 1 ELSE base * HostPower(base, exponent - 1)

BigInt_exponentiate(base, exponent) ==
    IF exponent.bigint < 0 THEN BigIntThrow("RangeError")
    ELSE IF base.bigint = 0 /\ exponent.bigint = 0 THEN BigIntNormal(1)
    ELSE BigIntNormal(HostPower(base.bigint, exponent.bigint))

\* A divide that gives 0n for the divisor 0n.
BigInt_divide_ZeroForZero(x, y) ==
    IF y.bigint = 0 THEN BigIntNormal(0)
    ELSE BigIntNormal(HostDivide(x.bigint, y.bigint))

BigInt_divide(x, y) ==
    IF y.bigint = 0 THEN BigIntThrow("RangeError")
    ELSE BigIntNormal(HostDivide(x.bigint, y.bigint))

BigInt_remainder(n, d) ==
    IF d.bigint = 0 THEN BigIntThrow("RangeError")
    ELSE IF n.bigint = 0 THEN BigIntNormal(0)
    ELSE BigIntNormal(HostRemainder(n.bigint, d.bigint))

BigInt_unsignedRightShift(x, y) == BigIntThrow("TypeError")

BigIntOperands == {BigIntValue(n) : n \in {-7, -2, -1, 0, 1, 2, 3, 7}}
BigIntCall(op, x, y, completion) ==
    [op |-> op, x |-> x, y |-> y, completion |-> completion]

InitBigInt ==
    \E x \in BigIntOperands, y \in BigIntOperands :
       /\ last = BigIntCall("init", x, y, BigIntNormal(0))
       /\ heap = <<>>
       /\ modules = NoModules
       /\ defined = {}
       /\ AgentIdle

DoBigIntExponentiate ==
    /\ last' = BigIntCall("exponentiate", last.x, last.y,
                          BigInt_exponentiate(last.x, last.y))
    /\ UNCHANGED <<heap, modules, defined, agentVars, jobVars>>

DoBigIntDivide ==
    /\ last' = BigIntCall("divide", last.x, last.y, BigInt_divide(last.x, last.y))
    /\ UNCHANGED <<heap, modules, defined, agentVars, jobVars>>

DoBigIntRemainder ==
    /\ last' = BigIntCall("remainder", last.x, last.y,
                          BigInt_remainder(last.x, last.y))
    /\ UNCHANGED <<heap, modules, defined, agentVars, jobVars>>

DoBigIntUnsignedRightShift ==
    /\ last' = BigIntCall("unsignedRightShift", last.x, last.y,
                          BigInt_unsignedRightShift(last.x, last.y))
    /\ UNCHANGED <<heap, modules, defined, agentVars, jobVars>>

NextBigInt ==
    \/ DoBigIntExponentiate
    \/ DoBigIntDivide
    \/ DoBigIntRemainder
    \/ DoBigIntUnsignedRightShift

SpecBigInt == InitBigInt /\ [][NextBigInt]_vars

\* C27: divide and remainder return a RangeError throw completion for the
\* divisor 0n, exponentiate returns one for a negative exponent and 1n for
\* 0n ** 0n, unsignedRightShift returns a TypeError throw completion for
\* all operands, and in every other case the operation returns a BigInt:
\* the quotient rounded towards zero, the remainder with the sign of the
\* dividend, the power.
C27_BigIntErrors ==
    last.op # "init" =>
        LET x == last.x.bigint
            y == last.y.bigint
            c == last.completion
            v == c.Value.bigint
            threw(error) == c.Type = "throw" /\ c.error = error
        IN /\ last.op = "unsignedRightShift" => threw("TypeError")
           /\ (last.op \in {"divide", "remainder"} /\ y = 0) => threw("RangeError")
           /\ (last.op = "exponentiate" /\ y < 0) => threw("RangeError")
           /\ (last.op = "exponentiate" /\ y >= 0) =>
                 /\ c.Type = "normal"
                 /\ (x = 0 /\ y = 0) => v = 1
                 /\ y = 2 => v = x * x
                 /\ y = 3 => v = x * x * x
           /\ (last.op = "divide" /\ y # 0) =>
                 /\ c.Type = "normal"
                 /\ Abs(v * y) <= Abs(x)
                 /\ Abs(x) - Abs(v * y) < Abs(y)
                 /\ v # 0 => ((v < 0) <=> ((x < 0) # (y < 0)))
           /\ (last.op = "remainder" /\ y # 0) =>
                 /\ c.Type = "normal"
                 /\ Abs(v) < Abs(y)
                 /\ v # 0 => ((v < 0) <=> (x < 0))
                 /\ \E q \in -7..7 : q * y + v = x

C27_Witness ==
    /\ last.op = "divide"
    /\ last.x = BigIntValue(-7)
    /\ last.y = BigIntValue(0)
    /\ last.completion = BigIntThrow("RangeError")

---------------------------------------------------------------------------
(* Evaluate_BreakableStatement and LabelledEvaluation_BreakableStatement   *)

\* A completion record with its target; absent is the empty value and the
\* empty target.
CompletionRecord(Type, Value, Target) ==
    [Type |-> Type, Value |-> Value, Target |-> Target]

\* Completion(completion) returns the completion record it is given.
Completion(completion) ==
    CompletionRecord(completion.Type, completion.Value, completion.Target)

UpdateEmpty(completionRecord, value) ==
    IF completionRecord.Value # absent THEN completionRecord
    ELSE CompletionRecord(completionRecord.Type, value, completionRecord.Target)

LoopContinues(completion, labelSet) ==
    IF completion.Type = "normal" THEN TRUE
    ELSE IF completion.Type # "continue" THEN FALSE
    ELSE IF completion.Target = absent THEN TRUE
    ELSE SeqHas(labelSet, completion.Target)

\* An iteration statement is given by the completions of the evaluations
\* of its body, one for each iteration its condition allows.
IterationStatement(body) == [type |-> "IterationStatement", body |-> body]
\* A switch statement is given by the completion of its case block.
SwitchStatement(caseBlock) ==
    [type |-> "SwitchStatement", body |-> <<caseBlock>>]
isIterationStatement(node) == node.type = "IterationStatement"
isSwitchStatement(node) == node.type = "SwitchStatement"

RECURSIVE LoopEvaluation(_, _, _)
LoopEvaluation(body, V, labelSet) ==
    IF body = <<>> THEN CompletionRecord("normal", V, absent)
    ELSE LET stmtResult == Head(body)
         IN IF ~LoopContinues(stmtResult, labelSet)
            THEN UpdateEmpty(stmtResult, V)
            ELSE LoopEvaluation(Tail(body),
                                IF stmtResult.Value # absent
                                THEN stmtResult.Value ELSE V,
                                labelSet)

LabelledEvaluation_IterationStatement(IterationStatement0, labelSet) ==
    LoopEvaluation(IterationStatement0.body, Vundefined, labelSet)

Evaluate_SwitchStatement(SwitchStatement0, labelSet) ==
    Head(SwitchStatement0.body)

LabelledEvaluation_BreakableStatement(BreakableStatement, labelSet) ==
    LET stmtResult ==
            IF isIterationStatement(BreakableStatement)
            THEN LabelledEvaluation_IterationStatement(BreakableStatement, labelSet)
            ELSE Evaluate_SwitchStatement(BreakableStatement, labelSet)
    IN IF stmtResult.Type = "break" /\ stmtResult.Target = absent
       THEN IF stmtResult.Value = absent
            THEN Completion(CompletionRecord("normal", Vundefined, absent))
            ELSE Completion(CompletionRecord("normal", stmtResult.Value, absent))
       ELSE Completion(stmtResult)

\* An evaluation that passes on the label set of an enclosing labelled
\* statement.
Evaluate_BreakableStatement_Labelled(BreakableStatement) ==
    LET newLabelSet == <<"L">>
    IN LabelledEvaluation_BreakableStatement(BreakableStatement, newLabelSet)

Evaluate_BreakableStatement(BreakableStatement) ==
    LET newLabelSet == <<>>
    IN LabelledEvaluation_BreakableStatement(BreakableStatement, newLabelSet)

MaxIterations == 2
StatementValues == {absent, "v1"}
StatementCompletions ==
    {CompletionRecord("normal", v, absent) : v \in StatementValues}
    \cup {CompletionRecord("return", "v1", absent),
          CompletionRecord("throw", "e", absent)}
    \cup {CompletionRecord(t, v, l) :
            t \in {"break", "continue"}, v \in StatementValues,
            l \in {absent, "L"}}
RECURSIVE Bodies(_)
Bodies(n) ==
    IF n = 0 THEN {<<>>}
    ELSE Bodies(n - 1)
         \cup {Append(b, c) : b \in {x \in Bodies(n - 1) : Len(x) = n - 1},
                              c \in StatementCompletions}
BreakableStatements ==
    {IterationStatement(b) : b \in Bodies(MaxIterations)}
    \cup {SwitchStatement(c) : c \in StatementCompletions}

BreakableCall(op, node, result) == [op |-> op, node |-> node, result |-> result]

InitBreakable ==
    \E node \in BreakableStatements :
       /\ last = BreakableCall("init", node, CompletionRecord("normal", absent, absent))
       /\ heap = <<>>
       /\ modules = NoModules
       /\ defined = {}
       /\ AgentIdle

DoEvaluate_BreakableStatement ==
    /\ last.op = "init"
    /\ last' = BreakableCall("Evaluate_BreakableStatement", last.node,
                             Evaluate_BreakableStatement(last.node))
    /\ UNCHANGED <<heap, modules, defined, agentVars, jobVars>>

NextBreakable == DoEvaluate_BreakableStatement

SpecBreakable == InitBreakable /\ [][NextBreakable]_vars

\* What the statement completes with when no label of an enclosing
\* statement is in effect: the first completion of the body that is not
\* normal and not a continue without target.
LeavesLoop(c) == ~(c.Type = "normal" \/ (c.Type = "continue" /\ c.Target = absent))
StatementResult(node) ==
    IF node.type = "SwitchStatement" THEN node.body[1]
    ELSE IF \E i \in 1..Len(node.body) : LeavesLoop(node.body[i])
         THEN LET i == CHOOSE k \in 1..Len(node.body) :
                          /\ LeavesLoop(node.body[k])
                          /\ \A j \in 1..(k - 1) : ~LeavesLoop(node.body[j])
              IN [Type |-> node.body[i].Type, Target |-> node.body[i].Target]
         ELSE [Type |-> "normal", Target |-> absent]

\* C28: evaluating a BreakableStatement evaluates the statement with an
\* empty label set (a continue with a target leaves the loop); a break
\* completion without target becomes a normal completion with the break's
\* value, undefined for an empty value; a break completion with a target
\* and every completion of another type is the result as it is.
C28_Breakable ==
    last.op = "Evaluate_BreakableStatement" =>
        LET inner == StatementResult(last.node)
            r == last.result
        IN /\ (inner.Type = "break" /\ inner.Target = absent) =>
                 /\ r.Type = "normal"
                 /\ r.Target = absent
                 /\ r.Value # absent
           /\ ~(inner.Type = "break" /\ inner.Target = absent) =>
                 /\ r.Type = inner.Type
                 /\ r.Target = inner.Target
           /\ last.node.type = "SwitchStatement" =>
                 LET c == last.node.body[1]
                 IN IF c.Type = "break" /\ c.Target = absent
                    THEN r = CompletionRecord("normal",
                                 IF c.Value = absent THEN Vundefined ELSE c.Value,
                                 absent)
                    ELSE r = c
           /\ (last.node.type = "IterationStatement" /\ Len(last.node.body) = 1) =>
                 LET c == last.node.body[1]
                 IN /\ (c.Type = "break" /\ c.Target = absent) =>
                          r = CompletionRecord("normal",
                                 IF c.Value = absent THEN Vundefined ELSE c.Value,
                                 absent)
                    /\ (c.Type \in {"break", "continue"} /\ c.Target # absent) =>
                          r = UpdateEmpty(c, Vundefined)
                    /\ c.Type \in {"return", "throw"} => r = c

C28_Witness ==
    /\ last.op = "Evaluate_BreakableStatement"
    /\ last.node = IterationStatement(
           <<CompletionRecord("continue", "v1", "L"),
             CompletionRecord("break", absent, absent)>>)
    /\ last.result = CompletionRecord("continue", "v1", "L")

---------------------------------------------------------------------------
(* AsyncFunctionStart and AsyncBlockStart                                  *)

ReturnCompletion(v) == [Type |-> "return", Value |-> v]

\* A promise capability with the calls of its Resolve and Reject functions
\* in the order they were made.
PromiseCapabilityRecord(id) == [id |-> id, calls |-> <<>>]
CallCapability(promiseCapability, function, argument) ==
    [promiseCapability EXCEPT !.calls = Append(@, <<function, argument>>)]

\* ExecutionContext.copy(): a new context with the fields of ctx.
copy(ctx, id) ==
    ExecutionContext(id, ctx.Function, ctx.Realm, ctx.ScriptOrModule,
                     ctx.VariableEnvironment)

\* The position of an async function: not called (pc "idle"), evaluating
\* its body (pc "body") after a resumption by AsyncBlockStart (via "start")
\* or by the job of an awaited promise (via "job"), suspended at an await,
\* or finished (pc "done"). returned says that AsyncBlockStart has returned,
\* ok that every assertion so far held.
AsyncState(pc, via, asyncContext, runningContext, entryStack,
           promiseCapability, returned, ok, awaits, depth) ==
    [pc |-> pc, via |-> via, asyncContext |-> asyncContext,
     runningContext |-> runningContext, entryStack |-> entryStack,
     promiseCapability |-> promiseCapability, returned |-> returned,
     ok |-> ok, awaits |-> awaits, depth |-> depth]

\* The resumer without the removal of the async context.
resumer_KeepsContext(stack, promiseCapability, asyncContext, completion) ==
    LET result == EnsureCompletion(completion)
    IN [stack |-> stack,
        ok |-> result.Type \in {"normal", "return", "throw"},
        promiseCapability |->
            IF result.Type = "normal"
            THEN CallCapability(promiseCapability, "Resolve", Vundefined)
            ELSE IF result.Type = "return"
            THEN CallCapability(promiseCapability, "Resolve", result.Value)
            ELSE CallCapability(promiseCapability, "Reject", result.Value)]

\* The generator resumer of AsyncBlockStart from the completion of
\* Evaluate(asyncBody) on.
resumer(stack, promiseCapability, asyncContext, completion) ==
    LET result == EnsureCompletion(completion)
        popped == ExecutionContextStackPop(stack, asyncContext)
    IN [stack |-> popped.stack,
        ok |-> popped.ok /\ result.Type \in {"normal", "return", "throw"},
        promiseCapability |->
            IF result.Type = "normal"
            THEN CallCapability(promiseCapability, "Resolve", Vundefined)
            ELSE IF result.Type = "return"
            THEN CallCapability(promiseCapability, "Resolve", result.Value)
            ELSE CallCapability(promiseCapability, "Reject", result.Value)]

\* Await in the async context: the context is removed from the stack and
\* the context below it is the running one again.
Await(stack, asyncContext) ==
    [stack |-> SubSeq(stack, 1, Len(stack) - 1),
     ok |-> stack # <<>> /\ stack[Len(stack)] = asyncContext]

\* The assertion of AsyncBlockStart after resume has returned.
AsyncBlockStartAssert(stack, runningContext) ==
    stack # <<>> /\ runningExecutionContext(stack) = runningContext

MaxAwaits == 2
BodyCompletions ==
    {NormalCompletion(absent), NormalCompletion("v1"), ReturnCompletion("v1"),
     ReturnCompletion(Vundefined), ThrowCompletion("e")}
JobContext == ExecutionContext(0, Vnull, "realm1", "script1", Vnull)
CalleeContext == ExecutionContext(4, "g", "realm1", Vnull, GlobalEnv("realm1"))

InitAsync ==
    /\ last = AsyncState("idle", "none", NoContext, NoContext, <<>>,
                         PromiseCapabilityRecord(1), FALSE, TRUE, 0, 0)
    /\ heap = <<>>
    /\ modules = NoModules
    /\ defined = {}
    /\ AgentIdle

\* Code is entered while the body of the async function is not evaluated.
AsyncEnterCode ==
    /\ last.pc \in {"idle", "suspended", "done"}
    /\ Len(executionContextStack) < 2
    /\ executionContextStack' =
           Append(executionContextStack,
                  IF executionContextStack = <<>> THEN ScriptContext
                  ELSE FunctionContext)
    /\ UNCHANGED <<objectVars, hostDefinedOptions, evaluation, jobVars>>

\* The running code returns while the async function is suspended or done.
AsyncLeaveCode ==
    /\ last.pc \in {"suspended", "done"}
    /\ executionContextStack # <<>>
    /\ executionContextStack' =
           ExecutionContextStackPop(executionContextStack,
               runningExecutionContext(executionContextStack)).stack
    /\ UNCHANGED <<objectVars, hostDefinedOptions, evaluation, jobVars>>

\* AsyncFunctionStart(promiseCapability, asyncFunctionBody) and
\* AsyncBlockStart up to the resumption of the async context.
AsyncFunctionStart ==
    /\ last.pc = "idle"
    /\ executionContextStack # <<>>
    /\ LET runningContext == runningExecutionContext(executionContextStack)
           asyncContext == copy(runningContext, 3)
       IN /\ executionContextStack' = Append(executionContextStack, asyncContext)
          /\ last' = AsyncState("body", "start", asyncContext, runningContext,
                                executionContextStack, last.promiseCapability,
                                FALSE, TRUE, 0, 0)
    /\ UNCHANGED <<heap, modules, defined, hostDefinedOptions, evaluation, jobVars>>

\* The body calls a function.
BodyCall ==
    /\ last.pc = "body"
    /\ last.depth = 0
    /\ executionContextStack' = Append(executionContextStack, CalleeContext)
    /\ last' = [last EXCEPT !.depth = 1]
    /\ UNCHANGED <<heap, modules, defined, hostDefinedOptions, evaluation, jobVars>>

\* The function called by the body returns.
BodyReturn ==
    /\ last.pc = "body"
    /\ last.depth = 1
    /\ executionContextStack' =
           ExecutionContextStackPop(executionContextStack, CalleeContext).stack
    /\ last' = [last EXCEPT !.depth = 0]
    /\ UNCHANGED <<heap, modules, defined, hostDefinedOptions, evaluation, jobVars>>

\* Control is back in the code that resumed the async context: in
\* AsyncBlockStart, which asserts and returns, or in the job.
BackInResumer(stack, ok) ==
    IF last.via = "start"
    THEN [returned |-> TRUE,
          ok |-> last.ok /\ ok /\ AsyncBlockStartAssert(stack, last.runningContext)]
    ELSE [returned |-> last.returned, ok |-> last.ok /\ ok]

\* The body awaits a promise.
BodyAwait ==
    /\ last.pc = "body"
    /\ last.depth = 0
    /\ last.awaits < MaxAwaits
    /\ LET r == Await(executionContextStack, last.asyncContext)
           back == BackInResumer(r.stack, r.ok)
       IN /\ executionContextStack' = r.stack
          /\ last' = [last EXCEPT !.pc = "suspended", !.awaits = @ + 1,
                                  !.returned = back.returned, !.ok = back.ok]
    /\ UNCHANGED <<heap, modules, defined, hostDefinedOptions, evaluation, jobVars>>

\* The evaluation of the body finishes with a completion.
BodyFinish(completion) ==
    /\ last.pc = "body"
    /\ last.depth = 0
    /\ LET r == resumer(executionContextStack, last.promiseCapability,
                        last.asyncContext, completion)
           back == BackInResumer(r.stack, r.ok)
       IN /\ executionContextStack' = r.stack
          /\ last' = [last EXCEPT !.pc = "done",
                                  !.promiseCapability = r.promiseCapability,
                                  !.returned = back.returned, !.ok = back.ok]
    /\ UNCHANGED <<heap, modules, defined, hostDefinedOptions, evaluation, jobVars>>

\* The job of the awaited promise runs on the empty stack and resumes the
\* async context.
AwaitResume ==
    /\ last.pc = "suspended"
    /\ executionContextStack = <<>>
    /\ executionContextStack' = <<JobContext, last.asyncContext>>
    /\ last' = [last EXCEPT !.pc = "body", !.via = "job"]
    /\ UNCHANGED <<heap, modules, defined, hostDefinedOptions, evaluation, jobVars>>

NextAsync ==
    \/ AsyncEnterCode
    \/ AsyncLeaveCode
    \/ AsyncFunctionStart
    \/ BodyCall
    \/ BodyReturn
    \/ BodyAwait
    \/ \E completion \in BodyCompletions : BodyFinish(completion)
    \/ AwaitResume

SpecAsync == InitAsync /\ [][NextAsync]_vars

\* The body finishes in this step.
BodyFinishes == last.pc = "body" /\ last'.pc = "done"
\* AsyncBlockStart returns in this step.
AsyncBlockStartReturns == ~last.returned /\ last'.returned

SettledOnce ==
    /\ last.pc # "done" => last.promiseCapability.calls = <<>>
    /\ last.pc = "done" =>
          /\ Len(last.promiseCapability.calls) = 1
          /\ last.promiseCapability.calls[1][1] \in {"Resolve", "Reject"}
    /\ last.ok

---------------------------------------------------------------------------
(* ExecutionContextStack: push and pop(ctx)                                *)

MaxStack == 3
StackContexts ==
    {ExecutionContext(id, "f", "realm1", Vnull, GlobalEnv("realm1")) : id \in 1..3}
\* A context that a tail call has removed from the stack and marked.
PoppedForTailCall(ctx) == [ctx EXCEPT !.poppedForTailCall = TRUE]
PopArguments == StackContexts \cup {PoppedForTailCall(ctx) : ctx \in StackContexts}

StackCall(op, ctx, ok) == [op |-> op, ctx |-> ctx, ok |-> ok]

InitStack ==
    /\ last = StackCall("init", NoContext, TRUE)
    /\ heap = <<>>
    /\ modules = NoModules
    /\ defined = {}
    /\ AgentIdle

\* executionContextStack.push(ctx)
DoStackPush(ctx) ==
    /\ last.ok
    /\ Len(executionContextStack) < MaxStack
    /\ executionContextStack' = Append(executionContextStack, ctx)
    /\ last' = StackCall("push", ctx, TRUE)
    /\ UNCHANGED <<heap, modules, defined, hostDefinedOptions, evaluation, jobVars>>

\* executionContextStack.pop(ctx); a failed assertion ends the run.
DoStackPop(ctx) ==
    /\ last.ok
    /\ LET r == ExecutionContextStackPop(executionContextStack, ctx)
       IN /\ executionContextStack' = r.stack
          /\ last' = StackCall("pop", ctx, r.ok)
    /\ UNCHANGED <<heap, modules, defined, hostDefinedOptions, evaluation, jobVars>>

NextStack ==
    \/ \E ctx \in StackContexts : DoStackPush(ctx)
    \/ \E ctx \in PopArguments : DoStackPop(ctx)

SpecStack == InitStack /\ [][NextStack]_vars

\* C30: pop(ctx) of a context that is not marked poppedForTailCall removes
\* the top of the stack, and the assertion holds exactly when the removed
\* context is ctx; pop(ctx) of a marked context removes nothing; and the
\* elements below the top are the same, in the same places, after the call.
C30_PopTop ==
    [][last'.op = "pop" =>
          LET stack == executionContextStack
              ctx == last'.ctx
          IN /\ ~ctx.poppedForTailCall =>
                   /\ executionContextStack' = SubSeq(stack, 1, Len(stack) - 1)
                   /\ last'.ok <=> (stack # <<>> /\ stack[Len(stack)] = ctx)
             /\ ctx.poppedForTailCall =>
                   /\ executionContextStack' = stack
                   /\ last'.ok
             /\ Len(executionContextStack') >= Len(stack) - 1
             /\ \A i \in 1..(Len(stack) - 1) :
                   executionContextStack'[i] = stack[i]]_vars

\* The top of a stack of three contexts has been popped.
C30_Witness ==
    /\ last.op = "pop"
    /\ last.ok
    /\ ~last.ctx.poppedForTailCall
    /\ Len(executionContextStack) = 2
    /\ executionContextStack[1] # executionContextStack[2]

---------------------------------------------------------------------------
(* HostEnqueueFinalizationRegistryCleanupJob (SpecCleanup)                 *)

\* The job function of a cleanup job closes over the registry fg.
CleanupJob(fg) == JobFunction(0, "FinalizationCleanup", fg)

\* The number of pending 'FinalizationCleanup' jobs of registry fg.
PendingCleanups(queue, fg) ==
    Cardinality({i \in 1..Len(queue) :
                    /\ queue[i].queueName = "FinalizationCleanup"
                    /\ queue[i].job.load = fg})

\* The agent's fields the host function reads and writes.
Agent(options, scheduledForCleanup, queue, stack) ==
    [hostDefinedOptions |-> options, scheduledForCleanup |-> scheduledForCleanup,
     jobQueue |-> queue, executionContextStack |-> stack]

\* The default behaviour without the test of scheduledForCleanup.
HostEnqueueFinalizationRegistryCleanupJob_Always(agent, fg, hookResult) ==
    IF agent.hostDefinedOptions.cleanupFinalizationRegistry # absent
    THEN [scheduledForCleanup |-> agent.scheduledForCleanup,
          jobQueue |-> agent.jobQueue, hook |-> TRUE,
          completion |-> IF hookResult.Type = "throw" THEN hookResult
                         ELSE NormalCompletion(Vundefined)]
    ELSE [scheduledForCleanup |-> agent.scheduledForCleanup \cup {fg},
          jobQueue |-> queueJob(agent.jobQueue, agent.executionContextStack,
                                "FinalizationCleanup", CleanupJob(fg)),
          hook |-> FALSE,
          completion |-> NormalCompletion(Vundefined)]

\* HostEnqueueFinalizationRegistryCleanupJob(fg): the agent's set and job
\* queue after the call, whether the host's hook was called, and the
\* completion returned; hookResult is what the hook returns.
HostEnqueueFinalizationRegistryCleanupJob(agent, fg, hookResult) ==
    IF agent.hostDefinedOptions.cleanupFinalizationRegistry # absent
    THEN [scheduledForCleanup |-> agent.scheduledForCleanup,
          jobQueue |-> agent.jobQueue, hook |-> TRUE,
          completion |-> IF hookResult.Type = "throw" THEN hookResult
                         ELSE NormalCompletion(Vundefined)]
    ELSE IF fg \notin agent.scheduledForCleanup
    THEN [scheduledForCleanup |-> agent.scheduledForCleanup \cup {fg},
          jobQueue |-> queueJob(agent.jobQueue, agent.executionContextStack,
                                "FinalizationCleanup", CleanupJob(fg)),
          hook |-> FALSE,
          completion |-> NormalCompletion(Vundefined)]
    ELSE [scheduledForCleanup |-> agent.scheduledForCleanup,
          jobQueue |-> agent.jobQueue, hook |-> FALSE,
          completion |-> NormalCompletion(Vundefined)]

Registries == {"fg1", "fg2", "fg3"}
HookResults == {NormalCompletion(Vundefined), ThrowCompletion("e")}

\* op is the last operation and fg its registry; scheduledForCleanup is the
\* agent's set; cleaned is the registry CleanupFinalizationRegistry was last
\* called for; requested says that the last job made a request itself.
CleanupState(op, fg, scheduledForCleanup, cleaned, requested, completion) ==
    [op |-> op, fg |-> fg, scheduledForCleanup |-> scheduledForCleanup,
     cleaned |-> cleaned, requested |-> requested, completion |-> completion]

InitCleanup ==
    /\ last = CleanupState("init", absent, {}, absent, absent,
                           NormalCompletion(Vundefined))
    /\ heap = <<>>
    /\ modules = NoModules
    /\ defined = {}
    /\ executionContextStack = <<>>
    /\ hostDefinedOptions \in
           {[cleanupFinalizationRegistry |-> absent],
            [cleanupFinalizationRegistry |-> "hook"]}
    /\ evaluation = NoEvaluation
    /\ JobsIdle

CleanupEnterCode ==
    /\ Len(executionContextStack) < 2
    /\ executionContextStack' =
           Append(executionContextStack,
                  IF executionContextStack = <<>> THEN ScriptContext
                  ELSE FunctionContext)
    /\ UNCHANGED <<objectVars, hostDefinedOptions, evaluation, jobVars>>

CleanupLeaveCode ==
    /\ executionContextStack # <<>>
    /\ executionContextStack' =
           ExecutionContextStackPop(executionContextStack,
               runningExecutionContext(executionContextStack)).stack
    /\ UNCHANGED <<objectVars, hostDefinedOptions, evaluation, jobVars>>

\* The collector finds a dead cell of registry fg while code runs.
DoHostEnqueueFinalizationRegistryCleanupJob(fg, hookResult) ==
    /\ executionContextStack # <<>>
    /\ LET r == HostEnqueueFinalizationRegistryCleanupJob(
                    Agent(hostDefinedOptions, last.scheduledForCleanup, jobQueue,
                          executionContextStack), fg, hookResult)
       IN /\ jobQueue' = r.jobQueue
          /\ last' = CleanupState("request", fg, r.scheduledForCleanup,
                                  last.cleaned, absent, r.completion)
    /\ UNCHANGED <<heap, modules, defined, agentVars, ran, loading>>

\* One round of runJobQueue on the empty stack: the job at the head is
\* removed and run in a context of its caller's realm. The job removes fg
\* from scheduledForCleanup and calls CleanupFinalizationRegistry(fg),
\* during which the collector may make a request for registry again.
RunCleanupJob(again) ==
    /\ executionContextStack = <<>>
    /\ jobQueue # <<>>
    /\ LET record == Head(jobQueue)
           fg == record.job.load
           newContext == ExecutionContext(0, Vnull, record.callerRealm,
                             record.callerScriptOrModule, Vnull)
           scheduled == last.scheduledForCleanup \ {fg}
       IN IF again = absent
          THEN /\ jobQueue' = Tail(jobQueue)
               /\ last' = CleanupState("job", fg, scheduled, fg, absent,
                                       NormalCompletion(Vundefined))
          ELSE LET r == HostEnqueueFinalizationRegistryCleanupJob(
                            Agent(hostDefinedOptions, scheduled, Tail(jobQueue),
                                  <<newContext>>),
                            again, NormalCompletion(Vundefined))
               IN /\ jobQueue' = r.jobQueue
                  /\ last' = CleanupState("job", fg, r.scheduledForCleanup, fg,
                                          again, r.completion)
    /\ UNCHANGED <<heap, modules, defined, agentVars, ran, loading>>

NextCleanup ==
    \/ CleanupEnterCode
    \/ CleanupLeaveCode
    \/ \E fg \in Registries, hookResult \in HookResults :
           DoHostEnqueueFinalizationRegistryCleanupJob(fg, hookResult)
    \/ \E again \in Registries \cup {absent} : RunCleanupJob(again)

SpecCleanup == InitCleanup /\ [][NextCleanup]_vars

OnePending ==
    /\ hostDefinedOptions.cleanupFinalizationRegistry = absent =>
          \A fg \in Registries :
             /\ PendingCleanups(jobQueue, fg) <= 1
             /\ fg \in last.scheduledForCleanup <=> PendingCleanups(jobQueue, fg) = 1
    /\ hostDefinedOptions.cleanupFinalizationRegistry # absent =>
          jobQueue = <<>> /\ last.scheduledForCleanup = {}

\* C31: without the host's hook every registry has at most one pending
\* 'FinalizationCleanup' job, exactly when it is in scheduledForCleanup; a
\* request for a scheduled registry leaves the queue as it is; a registry
\* leaves scheduledForCleanup only in the step that runs its job; and with
\* the hook no request changes the queue.
C31_OneCleanupJob ==
    /\ []OnePending
    /\ [][/\ (last'.op = "request" /\ last'.fg \in last.scheduledForCleanup) =>
                 /\ jobQueue' = jobQueue
                 /\ last'.scheduledForCleanup = last.scheduledForCleanup
          /\ (last'.op = "request" /\ last'.fg \notin last.scheduledForCleanup
              /\ hostDefinedOptions.cleanupFinalizationRegistry = absent) =>
                 /\ Len(jobQueue') = Len(jobQueue) + 1
                 /\ jobQueue'[Len(jobQueue')].job = CleanupJob(last'.fg)
          /\ hostDefinedOptions.cleanupFinalizationRegistry # absent =>
                 jobQueue' = jobQueue
          /\ \A fg \in Registries :
                 (/\ fg \in last.scheduledForCleanup
                  /\ \/ fg \notin last'.scheduledForCleanup
                     \/ /\ jobQueue' # <<>>
                        /\ jobQueue' = Append(jobQueue, jobQueue'[Len(jobQueue')])
                        /\ jobQueue'[Len(jobQueue')].job = CleanupJob(fg)) =>
                     (last'.op = "job" /\ last'.fg = fg)]_vars

\* The job of fg1 has run and, while it ran, fg1 was requested and
\* scheduled again behind the job of fg2.
C31_Witness ==
    /\ last.op = "job"
    /\ last.fg = "fg1"
    /\ last.requested = "fg1"
    /\ Len(jobQueue) = 2
    /\ jobQueue[1].job = CleanupJob("fg2")
    /\ jobQueue[2].job = CleanupJob("fg1")

---------------------------------------------------------------------------
(* Specification SpecFrame: one ordinary object with up to two properties, *)
(* defined, redefined and deleted in any order.                            *)

FrameKeys == {StrKey("a"), StrKey("b")}
FrameDescs ==
    {NoDesc,
     Descriptor("v1", Vtrue, absent, absent, Vtrue, Vtrue),
     Descriptor("v1", Vfalse, absent, absent, Vfalse, Vfalse),
     Descriptor("v2", absent, absent, absent, absent, absent),
     Descriptor(absent, Vtrue, absent, absent, absent, absent),
     Descriptor(absent, absent, "f", absent, Vtrue, Vtrue),
     Descriptor(absent, absent, "f", Vundefined, absent, Vfalse),
     Descriptor(absent, absent, absent, "f", absent, absent),
     Descriptor(absent, absent, absent, absent, Vtrue, absent),
     Descriptor(absent, absent, absent, absent, Vfalse, absent),
     Descriptor(absent, absent, absent, absent, absent, Vtrue)}

NextFrame ==
    \/ \E P \in FrameKeys, Desc \in FrameDescs : DoDefineOwnProperty("o", P, Desc)
    \/ \E P \in FrameKeys : DoDelete("o", P)
    \/ DoPreventExtensions("o")

SpecFrame == InitDefine /\ [][NextFrame]_vars

\* C32: a [[DefineOwnProperty]] that returns false leaves the property map
\* of the object, the keys, their order and every field of every entry,
\* and the rest of the object as they were; and a descriptor with every
\* field absent applied to an existing property returns true and changes
\* nothing either.
C32_RejectedChangesNothing ==
    [][last'.op = "DefineOwnProperty" =>
          /\ last'.ret = Vfalse =>
                /\ heap'[last'.O].properties = heap[last'.O].properties
                /\ heap' = heap
          /\ (everyFieldIsAbsent(last'.Desc) /\ last'.current # UndefinedValue) =>
                /\ last'.ret = Vtrue
                /\ heap' = heap]_vars

\* A define on the first of two properties has been rejected.
C32_Witness ==
    /\ last.op = "DefineOwnProperty"
    /\ last.ret = Vfalse
    /\ last.P = StrKey("b")
    /\ last.Desc.Get = "f"
    /\ PropsKeys(heap["o"].properties) = <<StrKey("b"), StrKey("a")>>

---------------------------------------------------------------------------
(* The invariants of array exotic objects (SpecArray)                      *)

\* C33: after every sequence of element definitions, length definitions
\* and deletions on an array, length is a data property that is not
\* configurable, its value is an integer from 0 to 2^32 - 1, and every own
\* array-index key is less than length.
C33_ArrayInvariant ==
    LET A == heap["A"]
    IN /\ PropsHas(A.properties, LengthKey)
       /\ LET len == PropsGet(A.properties, LengthKey)
          IN /\ IsDataEntry(len)
             /\ len.Configurable = Vfalse
             /\ len.Value \in Numbers
             /\ NumGe(numberValue(len.Value), Zero)
             /\ ~NumLt(Two32Minus1, numberValue(len.Value))
             /\ numberValue(len.Value)[2] \in 0..(Base - 1)
       /\ \A k \in Range(PropsKeys(A.properties)) :
              isArrayIndex(k) => NumLt(IndexOf(k), LengthOf(A))

\* A shrink of length stopped at a non-configurable element, after an
\* element at 4294967294 had been defined.
C33_Witness ==
    /\ last.op = "DefineOwnProperty" /\ last.P = LengthKey
    /\ last.ret = Vfalse
    /\ last.Desc.Value = "n0"
    /\ last.current.Value = "n4294967295"
    /\ LengthOf(heap["A"]) = Num(0, 1)
    /\ PropsHas(heap["A"].properties, IdxKey(Num(0, 0)))

LengthIsNotWritable(A) == PropsGet(A.properties, LengthKey).Writable = Vfalse

\* C34: on an array with a non-writable length a definition of an array
\* index >= length returns false and changes nothing, and a definition of
\* length with a smaller value returns false and changes nothing; and the
\* definition of an array index < length gives what the ordinary
\* definition gives, whether length is writable or not.
C34_NonWritableLength ==
    [][last'.op = "DefineOwnProperty" =>
          LET A == heap["A"]
              P == last'.P
              Desc == last'.Desc
          IN /\ (LengthIsNotWritable(A) /\ isArrayIndex(P)
                 /\ NumGe(IndexOf(P), LengthOf(A))) =>
                    (last'.ret = Vfalse /\ heap' = heap)
             /\ (LengthIsNotWritable(A) /\ P = LengthKey
                 /\ Desc.Value \in Numbers
                 /\ NumLt(numberValue(Desc.Value), LengthOf(A))) =>
                    (last'.ret = Vfalse /\ heap' = heap)
             /\ (isArrayIndex(P) /\ NumLt(IndexOf(P), LengthOf(A))) =>
                    \E r \in {OrdinaryDefineOwnProperty(A, P, Desc)} :
                       /\ last'.ret = r.ret
                       /\ heap'["A"] = r.O
                       /\ LengthOf(heap'["A"]) = LengthOf(A)]_vars

\* An element below a non-writable length has been redefined, and the
\* array holds it.
C34_Witness ==
    /\ last.op = "DefineOwnProperty"
    /\ last.P = IdxKey(Num(0, 0))
    /\ last.ret = Vtrue
    /\ last.current # UndefinedValue
    /\ last.current.Configurable = Vtrue
    /\ last.Desc.Configurable = Vfalse
    /\ LengthIsNotWritable(heap["A"])
    /\ LengthOf(heap["A"]) = Num(0, 2)

---------------------------------------------------------------------------
(* Specification SpecProto: three ordinary objects and a proxy, whose      *)
(* prototypes are set and which are made non-extensible in any order.      *)

ProtoObjects == {"o1", "o2", "o3"}
ProtoValues == ProtoObjects \cup {"px", Vnull}

ProtoCall(op, o, V, ret) == [op |-> op, O |-> o, V |-> V, ret |-> ret]

InitProto ==
    /\ heap = [o \in ProtoObjects \cup {"px"} |->
                 IF o = "px" THEN ProxyCreate("px", "o1", "o2", ProtoObjects).Value
                 ELSE OrdinaryObjectCreate(o, Vnull)]
    /\ last = ProtoCall("init", "o1", Vnull, Vtrue)
    /\ modules = NoModules
    /\ defined = {}
    /\ AgentIdle

DoOrdinarySetPrototypeOf(o, V) ==
    \E r \in {OrdinarySetPrototypeOf(heap[o], V)} :
       /\ heap' = [heap EXCEPT ![o] = r.O]
       /\ last' = ProtoCall("SetPrototypeOf", o, V, r.ret)
       /\ UNCHANGED <<modules, defined, agentVars, jobVars>>

DoOrdinaryPreventExtensions(o) ==
    \E r \in {OrdinaryPreventExtensions(heap[o])} :
       /\ heap' = [heap EXCEPT ![o] = r.O]
       /\ last' = ProtoCall("PreventExtensions", o, Vnull, r.ret)
       /\ UNCHANGED <<modules, defined, agentVars, jobVars>>

NextProto ==
    \/ \E o \in ProtoObjects, V \in ProtoValues : DoOrdinarySetPrototypeOf(o, V)
    \/ \E o \in ProtoObjects : DoOrdinaryPreventExtensions(o)

SpecProto == InitProto /\ [][NextProto]_vars

\* The objects that n or fewer Prototype links of ordinary objects lead to
\* from p, p itself among them.
RECURSIVE Ancestors(_, _, _)
Ancestors(h, p, n) ==
    IF p = Vnull THEN {}
    ELSE IF n = 0 \/ p \notin ProtoObjects THEN {p}
    ELSE {p} \cup Ancestors(h, h[p].Prototype, n - 1)

Acyclic ==
    \A o \in ProtoObjects :
        o \notin Ancestors(heap, heap[o].Prototype, Cardinality(ProtoObjects))

SetPrototypeOfStep ==
    last'.op = "SetPrototypeOf" =>
        LET o == last'.O
            V == last'.V
            O == heap[o]
        IN IF V = O.Prototype
           THEN last'.ret = Vtrue /\ heap' = heap
           ELSE IF O.Extensible = Vfalse
                   \/ o \in Ancestors(heap, V, Cardinality(ProtoObjects))
           THEN last'.ret = Vfalse /\ heap' = heap
           ELSE /\ last'.ret = Vtrue
                /\ heap' = [heap EXCEPT ![o].Prototype = V]

\* C35: OrdinarySetPrototypeOf returns true and changes nothing when V is
\* the current prototype; it returns false and changes nothing when O is
\* not extensible, and when the chain from V through ordinary objects
\* reaches O; otherwise it sets the prototype; and after every sequence
\* of calls no ordinary object reaches itself through Prototype links.
C35_AcyclicPrototypes == []Acyclic /\ [][SetPrototypeOfStep]_vars

\* A call that would close a cycle of three objects has been refused.
C35_Witness ==
    /\ last.op = "SetPrototypeOf"
    /\ last.ret = Vfalse
    /\ last.O = "o3" /\ last.V = "o1"
    /\ heap["o1"].Prototype = "o2"
    /\ heap["o2"].Prototype = "o3"
    /\ heap["o3"].Extensible = Vtrue

---------------------------------------------------------------------------
(* Extensibility of ordinary objects (SpecHas)                             *)

OrdinaryObjects == {"o1", "o2"}
KeySet(O) == Range(PropsKeys(O.properties))

\* A step leaves a non-extensible ordinary object non-extensible, adds no
\* key to it and leaves its prototype.
StaysClosed ==
    \A o \in OrdinaryObjects :
        heap[o].Extensible = Vfalse =>
            /\ heap'[o].Extensible = Vfalse
            /\ KeySet(heap'[o]) \subseteq KeySet(heap[o])
            /\ heap'[o].Prototype = heap[o].Prototype
            /\ (last'.op = "DefineOwnProperty" /\ last'.O = o
                /\ last'.ret = Vtrue) => KeySet(heap'[o]) = KeySet(heap[o])

\* On a non-extensible ordinary object the definition of every key it
\* does not own returns false, and so does every change of its prototype.
ClosedRefuses ==
    \A o \in OrdinaryObjects :
        heap[o].Extensible = Vfalse =>
            /\ \A P \in HasKeys \ KeySet(heap[o]) : \A Desc \in HasDescs \cup {NoDesc} :
                   OrdinaryDefineOwnProperty(heap[o], P, Desc).ret = Vfalse
            /\ \A V \in (HasObjects \cup {Vnull}) \ {heap[o].Prototype} :
                   OrdinarySetPrototypeOf(heap[o], V).ret = Vfalse

\* C36: once OrdinaryPreventExtensions has made O non-extensible, O never
\* becomes extensible again, every OrdinaryDefineOwnProperty of a key that
\* O does not own returns false, so that the set of own keys only shrinks,
\* and the prototype does not change.
C36_ExtensibleIsMonotonic == []ClosedRefuses /\ [][StaysClosed]_vars

\* A definition on o1 was refused after PreventExtensions, with its
\* prototype the namespace object.
C36_Witness ==
    /\ last.op = "DefineOwnProperty"
    /\ last.O = "o1"
    /\ last.ret = Vfalse
    /\ heap["o1"].Extensible = Vfalse
    /\ heap["o1"].Prototype = "ns"
    /\ KeySet(heap["o1"]) = {SymKey("toStringTag")}

---------------------------------------------------------------------------
(* IsCompatiblePropertyDescriptor (SpecCompatible)                         *)

\* An IsCompatiblePropertyDescriptor that takes every object as extensible.
IsCompatiblePropertyDescriptor_Extensible(Extensible, Desc, Current) ==
    ValidateAndApplyPropertyDescriptor(NoObject, Vundefined, Vtrue, Desc, Current)

\* IsCompatiblePropertyDescriptor(Extensible, Desc, Current): the record of
\* the result and of O, which is undefined.
IsCompatiblePropertyDescriptor(Extensible, Desc, Current) ==
    ValidateAndApplyPropertyDescriptor(NoObject, Vundefined, Extensible, Desc,
                                       Current)

\* The entries a property map can hold, and no entry.
StoredEntries ==
    {Descriptor(v, w, absent, absent, e, c) :
        v \in Values, w \in {Vtrue, Vfalse}, e \in {Vtrue, Vfalse},
        c \in {Vtrue, Vfalse}}
    \cup {Descriptor(absent, absent, g, s, e, c) :
            g \in Functions \cup {Vundefined}, s \in Functions \cup {Vundefined},
            e \in {Vtrue, Vfalse}, c \in {Vtrue, Vfalse}}
    \cup {UndefinedValue}

\* The object with the one property a of the given entry, or with none.
ObjectWith(entry, extensible) ==
    [OrdinaryObjectCreate("o", Vnull) EXCEPT
        !.properties = IF entry = UndefinedValue THEN <<>>
                       ELSE PropsSet(<<>>, StrKey("a"), entry),
        !.Extensible = extensible]

InitCompatible ==
    \E entry \in StoredEntries, extensible \in {Vtrue, Vfalse}, Desc \in Descs :
       /\ heap = [o \in {"o"} |-> ObjectWith(entry, extensible)]
       /\ last = Call("init", "o", StrKey("a"), Desc, entry, extensible, Vtrue)
       /\ modules = NoModules
       /\ defined = {}
       /\ AgentIdle

\* IsCompatiblePropertyDescriptor with the extensibility and the property
\* of o; an object that the call returned changed would take the place
\* of o.
DoIsCompatiblePropertyDescriptor ==
    /\ last.op = "init"
    /\ \E r \in {IsCompatiblePropertyDescriptor(
                     IsExtensible(heap["o"]), last.Desc,
                     GetOwnProperty(heap["o"], StrKey("a")))} :
          /\ last' = [last EXCEPT !.op = "IsCompatiblePropertyDescriptor",
                                  !.ret = r.ret]
          /\ heap' = IF r.O = NoObject THEN heap ELSE [heap EXCEPT !["o"] = r.O]
    /\ UNCHANGED <<modules, defined, agentVars, jobVars>>

\* ValidateAndApplyPropertyDescriptor on o itself.
DoValidateAndApplyPropertyDescriptor ==
    /\ last.op \in {"init", "IsCompatiblePropertyDescriptor"}
    /\ \E r \in {ValidateAndApplyPropertyDescriptor(
                     heap["o"], StrKey("a"), IsExtensible(heap["o"]), last.Desc,
                     GetOwnProperty(heap["o"], StrKey("a")))} :
          /\ last' = [last EXCEPT !.op = "ValidateAndApplyPropertyDescriptor",
                                  !.ret = r.ret]
          /\ heap' = [heap EXCEPT !["o"] = r.O]
    /\ UNCHANGED <<modules, defined, agentVars, jobVars>>

NextCompatible ==
    \/ DoIsCompatiblePropertyDescriptor
    \/ DoValidateAndApplyPropertyDescriptor

SpecCompatible == InitCompatible /\ [][NextCompatible]_vars

\* C37: IsCompatiblePropertyDescriptor changes no object and returns a
\* boolean, and ValidateAndApplyPropertyDescriptor applied afterwards to
\* the object with the same descriptor, the same current property and the
\* same extensibility returns the same boolean.
C37_IsCompatible ==
    [][/\ last'.op = "IsCompatiblePropertyDescriptor" =>
             /\ heap' = heap
             /\ last'.ret \in {Vtrue, Vfalse}
       /\ (last.op = "IsCompatiblePropertyDescriptor"
           /\ last'.op = "ValidateAndApplyPropertyDescriptor") =>
             last'.ret = last.ret
       /\ (last.op = "init"
           /\ last'.op = "ValidateAndApplyPropertyDescriptor") =>
             last'.ret = IsCompatiblePropertyDescriptor(
                             last.extensible, last.Desc, last.current).ret]_vars

\* A change of an accessor property to a data property was found
\* compatible, and then applied to the object.
C37_Witness ==
    /\ last.op = "ValidateAndApplyPropertyDescriptor"
    /\ last.ret = Vtrue
    /\ last.current # UndefinedValue
    /\ last.current.Get = "f"
    /\ last.Desc = Descriptor("v1", absent, absent, absent, absent, absent)
    /\ PropsGet(heap["o"].properties, StrKey("a")).Value = "v1"
    /\ PropsGet(heap["o"].properties, StrKey("a")).Get = absent

---------------------------------------------------------------------------
(* Specification SpecMapped: the mapped arguments objects of the calls of  *)
(* functions whose formals may repeat a name, with fewer or as many        *)
(* arguments as formals, and the assignments to the parameters.            *)

MaxFormals == 2
FormalLists == UNION {[1..n -> ParameterNames] : n \in 0..MaxFormals}
ArgumentLists == {SubSeq(<<"v1", "v2">>, 1, n) : n \in 0..2}
MappedKeys == {IdxKey(Num(0, 0)), IdxKey(Num(0, 1))}
\* The descriptors of the calls: one that makes the property non-writable
\* and one that makes it an accessor.
MappedDescs ==
    {Descriptor(absent, Vfalse, absent, absent, absent, absent),
     Descriptor(absent, absent, "f", absent, absent, absent)}

\* The bindings function instantiation has created in env: the binding of
\* a name holds the argument of the last position of the name, undefined
\* when no argument was passed for it.
BindingsOf(formals, argumentsList) ==
    [name \in ParameterNames |->
        LET positions == {j \in 1..Len(formals) : formals[j] = name}
        IN IF positions = {} THEN Vundefined
           ELSE LET j == CHOOSE k \in positions : \A m \in positions : m <= k
                IN IF j <= Len(argumentsList) THEN argumentsList[j]
                   ELSE Vundefined]

\* The call func(...argumentsList) of a function with these formals.
CallRecord(func, formals, argumentsList) ==
    [id |-> "call", kind |-> "call", func |-> func, formals |-> formals,
     argumentsList |-> argumentsList]

InitMapped ==
    \E formals \in FormalLists : \E argumentsList \in ArgumentLists :
        /\ heap = [o \in {"args", "ObjectPrototype", "call"} |->
                      IF o = "args"
                      THEN CreateMappedArgumentsObject("args", "f", formals,
                               argumentsList,
                               BindingsOf(formals, argumentsList))
                      ELSE IF o = "call"
                      THEN CallRecord("f", formals, argumentsList)
                      ELSE OrdinaryObjectCreate(o, Vnull)]
        /\ last = ArgumentsCall("CreateMappedArgumentsObject",
                                IdxKey(Num(0, 0)), NoDesc, absent, absent,
                                absent)
        /\ modules = NoModules
        /\ defined = {}
        /\ AgentIdle

NextMapped ==
    \/ \E P \in MappedKeys : DoArgumentsGetOwnProperty(P)
    \/ \E P \in MappedKeys : \E Desc \in MappedDescs :
           DoArgumentsDefineOwnProperty(P, Desc)
    \/ \E P \in MappedKeys : DoArgumentsGet(P)
    \/ \E P \in MappedKeys : DoArgumentsSet(P, "v2")
    \/ \E P \in MappedKeys : DoArgumentsDelete(P)
    \/ \E name \in ParameterNames : SetMutableBinding(name, "v3")

SpecMapped == InitMapped /\ [][NextMapped]_vars

\* Index i is below the number of arguments and is the last position of
\* its parameter name in the formals.
LastPositionPassed(formals, argumentsList, i) ==
    /\ i < Len(argumentsList)
    /\ i < Len(formals)
    /\ \A j \in (i + 2)..Len(formals) : formals[j] # formals[i + 1]

\* The mapping of the arguments object as it was created.
InitiallyMapped ==
    last.op = "CreateMappedArgumentsObject" =>
        \A i \in 0..MaxFormals :
            isMapped(heap["args"], IdxKey(Num(0, i)))
                <=> LastPositionPassed(heap["call"].formals,
                                       heap["call"].argumentsList, i)

\* What a read of arguments[i] gives.
ReadOf(h, P) ==
    <<ArgumentsGet(h["args"], P), ArgumentsGetOwnProperty(h["args"], P)>>

\* No step maps an index, a successful [[Delete]] unmaps its index, and
\* for an unmapped index a write to it leaves the bindings alone and a
\* write to a binding leaves what a read of it gives.
ShrinkStep ==
    \A P \in MappedKeys :
        /\ isMapped(heap'["args"], P) => isMapped(heap["args"], P)
        /\ (last'.op = "Delete" /\ last'.P = P /\ last'.ret = Vtrue)
               => ~isMapped(heap'["args"], P)
        /\ ~isMapped(heap["args"], P) =>
               /\ (last'.op \in {"Set", "DefineOwnProperty"} /\ last'.P = P)
                      => heap'["args"].env = heap["args"].env
               /\ last'.op = "SetMutableBinding"
                      => ReadOf(heap', P) = ReadOf(heap, P)

\* C38: for a mapped arguments object the set of mapped indices only
\* shrinks: at creation index i is mapped exactly when i is below the
\* number of arguments passed and is the last position of its parameter
\* name in the formals; a successful [[Delete]] of a mapped index removes
\* its mapping; no operation maps an index again; and once an index is
\* unmapped, writes to arguments[i] do not change the parameter binding and
\* writes to the parameter do not change arguments[i].
C38_MappingOnlyShrinks == []InitiallyMapped /\ [][ShrinkStep]_vars

\* Of the call f(v1, v2) of f(a, b) index 0 was deleted and then written:
\* it is unmapped and holds the written value while the binding of a still
\* holds the argument, and index 1 is still mapped.
C38_Witness ==
    /\ heap["call"].formals = <<"a", "b">>
    /\ last.op = "Set" /\ last.P = IdxKey(Num(0, 0)) /\ last.ret = Vtrue
    /\ ~isMapped(heap["args"], IdxKey(Num(0, 0)))
    /\ isMapped(heap["args"], IdxKey(Num(0, 1)))
    /\ PropsGet(heap["args"].properties, IdxKey(Num(0, 0))).Value = "v2"
    /\ heap["args"].env["a"] = "v1"

---------------------------------------------------------------------------
(* The private elements of an object have distinct keys (SpecPrivate)      *)

\* No two elements of O.PrivateElements have the same PrivateName as Key.
DistinctKeys ==
    \A i, j \in 1..Len(heap["o"].PrivateElements) :
        heap["o"].PrivateElements[i].Key.id
            = heap["o"].PrivateElements[j].Key.id => i = j

\* A call of PrivateFieldAdd or PrivateMethodOrAccessorAdd with a name the
\* object has throws and leaves the list, and otherwise appends one
\* element with that name; a PrivateSet on a field replaces the Value of
\* that element only.
PrivateElementsStep ==
    LET old == heap["o"].PrivateElements
        new == heap'["o"].PrivateElements
        i == PrivateElementIndex(last'.P, old)
    IN /\ last'.op = "PrivateElementAdd" =>
              IF \E k \in 1..Len(old) : old[k].Key.id = last'.P.id
              THEN /\ last'.ret = ThrowCompletion("TypeError")
                   /\ new = old
              ELSE /\ last'.ret = NormalCompletion(Vundefined)
                   /\ Len(new) = Len(old) + 1
                   /\ SubSeq(new, 1, Len(old)) = old
                   /\ new[Len(new)].Key = last'.P
                   /\ new[Len(new)].Value = last'.value
       /\ (last'.op = "PrivateSet" /\ i # 0 /\ old[i].Kind = "field") =>
              /\ last'.ret = NormalCompletion(Vundefined)
              /\ Len(new) = Len(old)
              /\ \A k \in 1..Len(old) :
                     new[k] = IF k = i
                              THEN [old[k] EXCEPT !.Value = last'.value]
                              ELSE old[k]

\* C39: no object ever holds two private elements with the same Key:
\* PrivateFieldAdd and PrivateMethodOrAccessorAdd return a TypeError throw
\* completion and leave O.PrivateElements unchanged when an element with
\* that PrivateName exists, and otherwise append exactly one element at
\* the end without changing the existing ones; PrivateSet on a field
\* replaces only the Value of that element.
C39_DistinctPrivateKeys == []DistinctKeys /\ [][PrivateElementsStep]_vars

\* An add of a method under the name of the field the object already has
\* has thrown, beside an element under another name with the same
\* Description, after the field was assigned.
C39_Witness ==
    /\ last.op = "PrivateElementAdd"
    /\ last.ret = ThrowCompletion("TypeError")
    /\ last.P = PrivateName(1, "#x") /\ last.value = "f"
    /\ Len(heap["o"].PrivateElements) = 2
    /\ heap["o"].PrivateElements[1] =
           PrivateElementRecord(PrivateName(1, "#x"), "field", "v2", absent,
                                absent)
    /\ heap["o"].PrivateElements[2].Key = PrivateName(2, "#x")

---------------------------------------------------------------------------
(* Specification SpecViewDetach: the view of SpecDataView written with     *)
(* values that are objects whose valueOf detaches the buffer, and a        *)
(* program that detaches the buffer without a key.                         *)

\* { valueOf() { DetachArrayBuffer(buf, "k1"); return primitive; } }
DetachingObject(primitive) ==
    [kind |-> "object", valueOf |-> primitive, key |-> "k1"]
DetachingValues == {DetachingObject(primitive) : primitive \in ViewValues}

NextViewDetach ==
    \/ \E getIndex \in ViewIndices : DoGetViewValue(getIndex)
    \/ \E getIndex \in ViewIndices, value \in ViewValues \cup DetachingValues :
          DoSetViewValue(getIndex, value)
    \/ DoDetachArrayBuffer(absent)

SpecViewDetach == InitDataView /\ [][NextViewDetach]_vars

\* The buffer is detached when the access looks at it: before the call of
\* GetViewValue, after the conversion of the value in SetViewValue (an
\* access detaches the buffer in its conversion only).
DetachedAtTheCheck == IsDetachedBuffer(heap'["buf"]) = Vtrue

\* An access of a detached buffer throws a TypeError, in bounds or not,
\* and touches no byte; a SetViewValue that throws touches no byte and
\* leaves every byte the block has.
DetachedStep ==
    ViewCallStep =>
        /\ DetachedAtTheCheck
               => Threw(last', "TypeError") /\ last'.touched = {}
        /\ (last'.op = "SetViewValue" /\ last'.completion.Type = "throw") =>
               /\ last'.touched = {}
               /\ last'.rawBytes = <<>>
               /\ \A j \in DOMAIN BlockOf(heap') :
                      BlockOf(heap')[j] = BlockOf(heap)[j]
               /\ IsDetachedBuffer(heap'["buf"]) = Vfalse => heap' = heap

\* C40: GetViewValue and SetViewValue test the detachment of the buffer
\* after the conversion of the index (and SetViewValue after the
\* conversion of the value, which may run code that detaches the buffer)
\* and before the test of the bounds: on a detached buffer they return a
\* TypeError throw completion whether or not the index is in bounds and
\* reach neither GetValueFromBuffer nor SetValueInBuffer; and when
\* SetViewValue returns a throw completion no byte of the buffer has been
\* changed.
C40_DetachedBeforeBounds == [][DetachedStep]_vars

\* The only write of a buffer with the key k1, in bounds, with an object
\* whose valueOf has detached the buffer, has thrown a TypeError.
C40_Witness ==
    /\ last.op = "SetViewValue" /\ last.writes = 1
    /\ last.value.kind = "object"
    /\ last.getIndex = 0
    /\ heap["buf"].ArrayBufferDetachKey = "k1"
    /\ IsDetachedBuffer(heap["buf"]) = Vtrue
    /\ Threw(last, "TypeError")
    /\ last.touched = {}

=============================================================================
